---- MODULE Spec2Model ----
(***************************************************************************)
(* grammar-composer: buildGrammar (preparation, optionality analysis,     *)
(* left-recursion detection) and the top-down parser with its per-node     *)
(* packrat cache and best-failed-match record.                             *)
(*                                                                         *)
(* Object identity is modelled by heap addresses: the built grammar graph  *)
(* is a sequence of node records, a node's address is its index, and       *)
(* content / members hold addresses.  Input text and string terminal       *)
(* contents are sequences of one-character strings.                        *)
(***************************************************************************)
EXTENDS Integers, Sequences, FiniteSets, TLC

VARIABLES
    source,                  \* which grammar object buildGrammar is given (see Src)
    inputString,             \* the text handed to parse
    phase,                   \* position in buildGrammar / parse
    heap,                    \* grammar nodes by address
    uniqueIdCounter,         \* buildGrammar's uniqueIdCounter
    lookup,                  \* buildGrammar's nonterminalLookup, by production name
    startNonterminal,        \* buildGrammar's startNonterminal (0: undefined)
    visitedNodes,            \* detectAndAnnotateOptionalNodes: visitedNodes
    resolvedNodes,           \* detectAndAnnotateOptionalNodes: resolvedNodes
    unresolvedNodes,         \* detectAndAnnotateOptionalNodes: unresolvedNodes (insertion order)
    buildError,              \* the error buildGrammar threw, or NoError
    grammar,                 \* the Grammar object buildGrammar returned
    pass,                    \* which parse call is running (1: cached flags cleared, 2: as built)
    stack,                   \* parse: active tryParse invocations, innermost last
    ret,                     \* parse: value being returned to the innermost invocation
    cachedParseResults,      \* parse: slot per offset, node -> result
    bestFailedMatches,       \* parse: terminals that failed at bestFailedMatchesOffset
    bestFailedMatchesOffset, \* parse: furthest offset at which a terminal failed
    evalLog,                 \* history: every tryParse call, in order
    outcomes                 \* what each finished parse call returned or threw

vars == <<source, inputString, phase, heap, uniqueIdCounter, lookup,
          startNonterminal, visitedNodes,
          resolvedNodes, unresolvedNodes, buildError, grammar, pass, stack, ret,
          cachedParseResults, bestFailedMatches, bestFailedMatchesOffset,
          evalLog, outcomes>>

----------------------------------------------------------------------------
(* Bounds of the model *)

\* longest generated input text (sample texts of the scenarios come on top)
MaxInputLen == 3
\* most elements of one grammar that are wrapped in cached(...)
MaxCached == 1
\* most tryParse calls followed within one parse call
MaxEvals == 40
\* deepest tryParse nesting followed within one parse call
MaxDepth == 12

----------------------------------------------------------------------------
(* Small helpers *)

Undefined == -1

Range(s) == {s[i] : i \in 1..Len(s)}

\* index of the first element of s satisfying a membership in set S, or 0
RECURSIVE FirstIn(_, _, _)
FirstIn(s, S, i) ==
    IF i > Len(s) THEN 0
    ELSE IF s[i] \in S THEN i
    ELSE FirstIn(s, S, i + 1)

\* all sequences over S of length 0..n
RECURSIVE SeqsUpTo(_, _)
SeqsUpTo(S, n) ==
    IF n = 0 THEN {<<>>}
    ELSE LET shorter == SeqsUpTo(S, n - 1)
         IN  shorter \cup {Append(s, c) : s \in {t \in shorter : Len(t) = n - 1}, c \in S}

\* a string from a sequence of one-character strings
RECURSIVE Join(_, _)
Join(parts, sep) ==
    IF parts = <<>> THEN ""
    ELSE IF Len(parts) = 1 THEN parts[1]
    ELSE parts[1] \o sep \o Join(Tail(parts), sep)

----------------------------------------------------------------------------
(* Grammar elements (GrammarElementBase and its seven variants).  One      *)
(* record shape serves all variants; fields a variant lacks hold a fixed   *)
(* filler.  cached is "unset", "true" or "false"; uniqueId is Undefined    *)
(* until assigned.  `self` names the property of the grammar object whose  *)
(* value this very object is ("" for any other object): it is how          *)
(* nameLookup.get(element) is answered.                                    *)

NoPattern == [chars |-> {}, nullable |-> FALSE, groups |-> <<>>]

GrammarElement(type) ==
    [kind |-> "element", type |-> type, content |-> <<>>, name |-> "",
     members |-> <<>>, optional |-> FALSE, cached |-> "unset",
     exhaustive |-> FALSE, reference |-> "", pattern |-> NoPattern,
     self |-> "", uniqueId |-> Undefined, message |-> ""]

\* a builder that threw: carried upwards until buildGrammar rethrows it
Thrown(message) == [GrammarElement("Thrown") EXCEPT !.message = message]

IsThrown(e) == e.type = "Thrown"

FirstThrown(es) ==
    LET i == FirstIn([j \in 1..Len(es) |-> es[j].type], {"Thrown"}, 1)
    IN  IF i = 0 THEN Thrown("") ELSE es[i]

AnyThrown(es) == \E i \in 1..Len(es) : IsThrown(es[i])

(* Production values as the user writes them: a string, an array of        *)
(* productions, a function (this.<key>), or an already built element.      *)
Str(chars) == [kind |-> "string", chars |-> chars]
Arr(items) == [kind |-> "array", items |-> items]
Fn(key) == [kind |-> "function", key |-> key]

\* a builder call written in a production body, not yet evaluated
Expr(builder, arg) == [kind |-> "call", builder |-> builder, arg |-> arg]

stringTerminal(content) ==
    IF Len(content) < 1
    THEN Thrown("A string terminal must have a length of at least 1 character")
    ELSE [GrammarElement("StringTerminal") EXCEPT !.content = content]

sequence(members) ==
    IF AnyThrown(members) THEN FirstThrown(members)
    ELSE [GrammarElement("Sequence") EXCEPT !.members = members]

unresolvedReference(reference) ==
    [GrammarElement("NonterminalReference") EXCEPT !.reference = reference]

RECURSIVE productionToGrammarElement(_)
productionToGrammarElement(production) ==
    IF production.kind = "string" THEN stringTerminal(production.chars)
    ELSE IF production.kind = "array"
    THEN sequence([i \in 1..Len(production.items) |->
                      productionToGrammarElement(production.items[i])])
    ELSE IF production.kind = "function" THEN unresolvedReference(production.key)
    ELSE production

zeroOrMore(content) ==
    LET c == productionToGrammarElement(content)
    IN  IF IsThrown(c) THEN c
        ELSE [GrammarElement("Repetition") EXCEPT !.members = <<c>>, !.optional = TRUE]

oneOrMore(content) ==
    LET c == productionToGrammarElement(content)
    IN  IF IsThrown(c) THEN c
        ELSE [GrammarElement("Repetition") EXCEPT !.members = <<c>>, !.optional = FALSE]

Choice(members, exhaustive, who) ==
    IF Len(members) = 0 THEN Thrown("'" \o who \o "' requires at least one member.")
    ELSE LET normalizedMembers ==
                 [i \in 1..Len(members) |-> productionToGrammarElement(members[i])]
         IN  IF AnyThrown(normalizedMembers) THEN FirstThrown(normalizedMembers)
             ELSE [GrammarElement("Choice") EXCEPT !.members = normalizedMembers,
                                                   !.exhaustive = exhaustive]

anyOf(members) == Choice(members, FALSE, "anyOf")

bestOf(members) == Choice(members, TRUE, "bestOf")

\* { ...productionToGrammarElement(content), optional: true }: a fresh object
possibly(content) ==
    LET c == productionToGrammarElement(content)
    IN  IF IsThrown(c) THEN c ELSE [c EXCEPT !.optional = TRUE, !.self = ""]

\* { ...productionToGrammarElement(content), cached: true }: a fresh object
cached(content) ==
    LET c == productionToGrammarElement(content)
    IN  IF IsThrown(c) THEN c ELSE [c EXCEPT !.cached = "true", !.self = ""]

uncached(content) ==
    LET c == productionToGrammarElement(content)
    IN  IF IsThrown(c) THEN c ELSE [c EXCEPT !.cached = "false", !.self = ""]

(* pattern(p): the regular expression is the composer library's business.  *)
(* A pattern here is a greedy run of characters of one class, `nullable`   *)
(* when the run may be empty, with capture groups around the run: each     *)
(* group is [name, optional], name "" for a numbered group, optional when  *)
(* the group takes no part in an empty match.  isPatternOptional(p)        *)
(* answers p.nullable.                                                     *)
pattern(p) ==
    [GrammarElement("PatternTerminal") EXCEPT
        !.name = "[Pattern]", !.pattern = p, !.optional = p.nullable]

nonterminal(name, content) ==
    IF name = "" THEN Thrown("A nonterminal name must include at least 1 character.")
    ELSE [GrammarElement("Nonterminal") EXCEPT !.name = name, !.members = <<content>>]

\* evaluating a production body: the builder calls written in it run, inner
\* calls first (anyOf and bestOf take their members as separate arguments)
RECURSIVE evaluate(_)
evaluate(production) ==
    IF production.kind = "array"
    THEN Arr([i \in 1..Len(production.items) |-> evaluate(production.items[i])])
    ELSE IF production.kind # "call" THEN production
    ELSE IF production.builder \in {"anyOf", "bestOf"}
    THEN LET members == [i \in 1..Len(production.arg) |-> evaluate(production.arg[i])]
         IN  IF production.builder = "anyOf" THEN anyOf(members) ELSE bestOf(members)
    ELSE LET content == evaluate(production.arg)
         IN  CASE production.builder = "zeroOrMore" -> zeroOrMore(content)
               [] production.builder = "oneOrMore" -> oneOrMore(content)
               [] production.builder = "possibly" -> possibly(content)
               [] production.builder = "cached" -> cached(content)
               [] production.builder = "uncached" -> uncached(content)

----------------------------------------------------------------------------
(* The grammar object handed to buildGrammar: its properties in key order. *)
(* A callable property () => body is held with the production its call     *)
(* returns; any other property is held with its value.                     *)

Callable(key, body) == [key |-> key, callable |-> TRUE, value |-> body]

\* a property whose value is a built element; this.<key> is that one object
Value(key, element) == [key |-> key, callable |-> FALSE, value |-> element]

This(key, element) == [element EXCEPT !.self = key]

NoError == [type |-> "none", message |-> ""]

Error(message) == [type |-> "Error", message |-> message]

\* JSON.stringify on a structure that contains itself
TypeError(message) == [type |-> "TypeError", message |-> message]

CallableKeys(obj) ==
    LET RECURSIVE Keep(_)
        Keep(i) == IF i > Len(obj) THEN <<>>
                   ELSE IF obj[i].callable THEN <<i>> \o Keep(i + 1)
                   ELSE Keep(i + 1)
    IN  Keep(1)

\* nonterminalLookup.get / optionalNonterminalLookup.get: the address of the
\* twin made for the callable property `key`, or 0
nonterminalLookup(obj, key) ==
    LET ks == CallableKeys(obj)
        j == FirstIn([i \in 1..Len(ks) |-> obj[ks[i]].key], {key}, 1)
    IN  IF j = 0 THEN 0 ELSE 2 * j - 1

\* variant: the optional lookup answers with the required twin
optionalNonterminalLookupRequired(obj, key) == nonterminalLookup(obj, key)

optionalNonterminalLookup(obj, key) ==
    LET a == nonterminalLookup(obj, key) IN IF a = 0 THEN 0 ELSE a + 1

\* buildGrammar lines 315-340: constructing the grammar object evaluates the
\* value properties; then every callable property is called, normalized and
\* wrapped in a Nonterminal (members holds the normalized production here,
\* not yet an address)
Inventory(obj) ==
    LET ks == CallableKeys(obj)
        values == [i \in 1..Len(obj) |->
                      IF obj[i].callable THEN GrammarElement("none")
                      ELSE productionToGrammarElement(evaluate(obj[i].value))]
        made == [j \in 1..Len(ks) |->
                    LET normalizedProduction ==
                            productionToGrammarElement(evaluate(obj[ks[j]].value))
                    IN  IF IsThrown(normalizedProduction) THEN normalizedProduction
                        ELSE nonterminal(obj[ks[j]].key, normalizedProduction)]
    IN  [failed |-> AnyThrown(values) \/ AnyThrown(made),
         thrown |-> IF AnyThrown(values) THEN FirstThrown(values)
                    ELSE FirstThrown(made),
         nonterminals |-> made]

\* the heap right after the inventory: required twin of the j-th callable
\* property at address 2j-1, optional twin at 2j, contents still unprepared
InventoryHeap(made) ==
    [a \in 1..(2 * Len(made)) |->
        LET n == made[(a + 1) \div 2]
        IN  [n EXCEPT !.members = <<>>, !.optional = (a % 2 = 0)]]

(* prepareGrammarElement / prepare.  st = [heap, next, addr, err]: the heap *)
(* so far, the next value of uniqueIdCounter, the address of the prepared   *)
(* element, and the error thrown.                                           *)
Allocate(st, node) ==
    [st EXCEPT !.heap = Append(st.heap, node), !.addr = Len(st.heap) + 1]

\* nameLookup.get(element) ?? ''
preparePatternName(element) == element.self

\* JSON.stringify of a NonterminalReference: the function-valued property
\* `reference` is left out
stringifyReference(element) ==
    "{\"type\":\"NonterminalReference\",\"optional\":"
    \o (IF element.optional THEN "true" ELSE "false")
    \o (IF element.cached = "unset" THEN "" ELSE ",\"cached\":" \o element.cached)
    \o "}"

\* a reference that stays in the graph as it is
resolveReferenceKeeping(st, obj, element) == Allocate(st, element)

\* lines 419-439: the reference is replaced by the twin it names
resolveReference(st, obj, element) ==
    LET a == IF element.optional
             THEN optionalNonterminalLookup(obj, element.reference)
             ELSE nonterminalLookup(obj, element.reference)
    IN  IF a = 0
        THEN [st EXCEPT !.err =
                 Error("Couldn't resolve function reference in grammar element: "
                       \o stringifyReference(element))]
        ELSE IF st.heap[a].uniqueId = Undefined
        THEN [st EXCEPT !.heap[a].uniqueId = st.next,
                        !.next = st.next + 1, !.addr = a]
        ELSE [st EXCEPT !.addr = a]

RECURSIVE prepare(_, _, _)
RECURSIVE prepareMembers(_, _, _, _, _)

prepareMembers(st, obj, members, i, acc) ==
    IF i > Len(members) \/ st.err # NoError THEN [st |-> st, addrs |-> acc]
    ELSE LET r == prepare(st, obj, members[i])
         IN  prepareMembers(r, obj, members, i + 1, Append(acc, r.addr))

prepare(st, obj, element) ==
    IF st.err # NoError THEN st
    ELSE IF element.type \in {"StringTerminal", "Nonterminal"}
    THEN \* returned as it is; a fresh object of the production enters the heap
         LET id == IF element.uniqueId = Undefined THEN st.next ELSE element.uniqueId
             nx == IF element.uniqueId = Undefined THEN st.next + 1 ELSE st.next
         IN  [Allocate(st, [element EXCEPT !.uniqueId = id]) EXCEPT !.next = nx]
    ELSE IF element.type = "PatternTerminal"
    THEN [Allocate(st, [element EXCEPT !.name = preparePatternName(element),
                                       !.uniqueId = st.next])
             EXCEPT !.next = st.next + 1]
    ELSE IF element.type \in {"Repetition", "Sequence", "Choice"}
    THEN LET r == prepareMembers(st, obj, element.members, 1, <<>>)
         IN  IF r.st.err # NoError THEN r.st
             ELSE [Allocate(r.st, [element EXCEPT !.members = r.addrs,
                                                  !.uniqueId = r.st.next])
                      EXCEPT !.next = r.st.next + 1]
    ELSE IF element.type = "NonterminalReference"
    THEN resolveReference(st, obj, element)
    ELSE [st EXCEPT !.err = Error("Unsupported grammar element type")]

\* buildGrammar lines 345-352: prepare every nonterminal's content, in
\* insertion order, and give it to both twins
RECURSIVE prepareAll(_, _, _, _)
prepareAll(st, obj, made, j) ==
    IF j > Len(made) \/ st.err # NoError THEN st
    ELSE LET r == prepare(st, obj, made[j].members[1])
         IN  IF r.err # NoError THEN r
             ELSE prepareAll([r EXCEPT !.heap[2 * j - 1].members = <<r.addr>>,
                                       !.heap[2 * j].members = <<r.addr>>],
                             obj, made, j + 1)

----------------------------------------------------------------------------
(* detectAndAnnotateOptionalNodes.  resolvedNodes is a function from the    *)
(* resolved addresses to their verdicts; unresolvedNodes is the sequence,   *)
(* in insertion order, of [node, dependencies], dependencies being a        *)
(* duplicate-free sequence in insertion order (a JavaScript Set).           *)

Known(value) == [known |-> TRUE, value |-> value]

Unknown == [known |-> FALSE, value |-> FALSE]

Resolve(st, node, value) ==
    [st EXCEPT !.resolved = (node :> value) @@ st.resolved, !.result = Known(value)]

Unresolved(st, node, dependencies) ==
    [st EXCEPT !.unresolved = Append(st.unresolved,
                                     [node |-> node, dependencies |-> dependencies]),
               !.result = Unknown]

SetAdd(s, x) == IF x \in Range(s) THEN s ELSE Append(s, x)

\* a rule that takes every resolved Sequence or Choice for optional
allMembersOptionalAlways(allResolvedElementsAreOptional) == TRUE

\* Sequence and Choice share one rule: optional iff every member is
allMembersOptional(allResolvedElementsAreOptional) == allResolvedElementsAreOptional

RECURSIVE processDepthFirst(_, _, _)
RECURSIVE processMembers(_, _, _, _, _, _)

\* the member loop of the Sequence / Choice case
processMembers(st, h, members, i, dependencies, allOptional) ==
    IF i > Len(members)
    THEN [st |-> st, dependencies |-> dependencies, allOptional |-> allOptional]
    ELSE LET r == processDepthFirst(st, h, members[i])
         IN  IF r.result.known
             THEN processMembers(r, h, members, i + 1, dependencies,
                                 allOptional /\ r.result.value)
             ELSE processMembers(r, h, members, i + 1,
                                 SetAdd(dependencies, members[i]), allOptional)

processDepthFirst(st, h, node) ==
    IF node \in st.visited
    THEN [st EXCEPT !.result = IF node \in DOMAIN st.resolved
                               THEN Known(st.resolved[node]) ELSE Unknown]
    ELSE LET st1 == [st EXCEPT !.visited = @ \cup {node}]
             n == h[node]
         IN  IF n.type \in {"StringTerminal", "PatternTerminal"}
             THEN Resolve(st1, node, n.optional)
             ELSE IF n.type \in {"Nonterminal", "Repetition"}
             THEN LET r == processDepthFirst(st1, h, n.members[1])
                  IN  IF n.optional THEN Resolve(r, node, TRUE)
                      ELSE IF r.result.known THEN Resolve(r, node, r.result.value)
                      ELSE Unresolved(r, node, <<n.members[1]>>)
             ELSE LET m == processMembers(st1, h, n.members, 1, <<>>, TRUE)
                  IN  IF n.optional THEN Resolve(m.st, node, TRUE)
                      ELSE IF Len(m.dependencies) = 0 \/ ~m.allOptional
                      THEN Resolve(m.st, node, allMembersOptional(m.allOptional))
                      ELSE Unresolved(m.st, node, m.dependencies)

AnalysisStart ==
    [visited |-> {}, resolved |-> <<>>, unresolved |-> <<>>, result |-> Unknown]

\* the scan of one unresolved node's dependencies (lines 540-561):
\* [found: a resolved dependency was seen, nonOptional, dependencies left]
RECURSIVE scanDependencies(_, _, _, _, _)
scanDependencies(resolved, dependencies, i, found, left) ==
    IF i > Len(dependencies)
    THEN [found |-> found, nonOptional |-> FALSE, dependencies |-> left]
    ELSE LET d == dependencies[i]
         IN  IF d \in DOMAIN resolved
             THEN IF resolved[d] = FALSE
                  THEN [found |-> TRUE, nonOptional |-> TRUE,
                        dependencies |-> left \o SubSeq(dependencies, i, Len(dependencies))]
                  ELSE scanDependencies(resolved, dependencies, i + 1, TRUE, left)
             ELSE scanDependencies(resolved, dependencies, i + 1, found, Append(left, d))

\* one iteration of the while loop (lines 532-578):
\* [resolved, unresolved, progress]
RECURSIVE eliminationRound(_, _, _, _, _)
eliminationRound(resolved, entries, i, kept, progress) ==
    IF i > Len(entries)
    THEN [resolved |-> resolved, unresolved |-> kept, progress |-> progress]
    ELSE LET e == entries[i]
             sc == scanDependencies(resolved, e.dependencies, 1, FALSE, <<>>)
         IN  IF sc.nonOptional \/ Len(sc.dependencies) = 0
             THEN eliminationRound((e.node :> ~sc.nonOptional) @@ resolved,
                                   entries, i + 1, kept, progress \/ sc.found)
             ELSE eliminationRound(resolved, entries, i + 1,
                                   Append(kept, [e EXCEPT !.dependencies = sc.dependencies]),
                                   progress \/ sc.found)

\* a residual rule that declares every node optional, resolved or not
residualClosureAllOptional(resolved, unresolved) ==
    [a \in (DOMAIN resolved) \cup {unresolved[i].node : i \in 1..Len(unresolved)} |-> TRUE]

\* a residual rule that gives the remaining nodes no verdict
residualClosureNone(resolved, unresolved) == resolved

\* lines 580-585: whatever is still unresolved is declared optional
residualClosure(resolved, unresolved) ==
    [a \in (DOMAIN resolved) \cup {unresolved[i].node : i \in 1..Len(unresolved)} |->
        IF a \in DOMAIN resolved THEN resolved[a] ELSE TRUE]

\* lines 587-590: write the verdicts onto the nodes
annotate(h, resolved) ==
    [a \in 1..Len(h) |->
        IF a \in DOMAIN resolved THEN [h[a] EXCEPT !.optional = resolved[a]] ELSE h[a]]

----------------------------------------------------------------------------
(* detectAndErrorOnLeftRecursion.  detect returns [thrown, at, path]: at is *)
(* the node found on the path again, path is currentlyIteratedNodes.        *)

\* an exit that leaves the node in the path set
detectExitKeeping(currentlyIteratedNodes, node) == currentlyIteratedNodes

detectExit(currentlyIteratedNodes, node) == currentlyIteratedNodes \ {node}

\* the Sequence loop goes on past a member only when that member is optional
detectSequenceBreak(member) == ~member.optional

RECURSIVE detect(_, _, _)
RECURSIVE detectMembers(_, _, _, _, _)

detectMembers(h, members, i, path, isSequence) ==
    IF i > Len(members) THEN [thrown |-> FALSE, at |-> 0, path |-> path]
    ELSE LET r == detect(h, members[i], path)
         IN  IF r.thrown THEN r
             ELSE IF isSequence /\ detectSequenceBreak(h[members[i]]) THEN r
             ELSE detectMembers(h, members, i + 1, r.path, isSequence)

detect(h, node, path) ==
    IF node \in path THEN [thrown |-> TRUE, at |-> node, path |-> path]
    ELSE LET n == h[node]
             r == IF n.type \in {"Nonterminal", "Repetition", "Sequence", "Choice"}
                  THEN detectMembers(h, n.members, 1, path \cup {node},
                                     n.type = "Sequence")
                  ELSE [thrown |-> FALSE, at |-> 0, path |-> path \cup {node}]
         IN  IF r.thrown THEN r ELSE [r EXCEPT !.path = detectExit(r.path, node)]

\* every node `from` reaches through content / members edges, itself excluded
\* unless it lies on a cycle
RECURSIVE ReachFrom(_, _, _)
ReachFrom(h, frontier, seen) ==
    LET next == UNION {Range(h[a].members) : a \in frontier} \ seen
    IN  IF next = {} THEN seen ELSE ReachFrom(h, next, seen \cup next)

Successors(h, node) ==
    LET first == Range(h[node].members)
    IN  ReachFrom(h, first, first)

\* JSON.stringify(node) throws a TypeError on a structure that contains itself
stringifyThrows(h, node) == node \in Successors(h, node)

\* the error detectAndErrorOnLeftRecursion throws for the re-entered node
leftRecursionError(h, node) ==
    IF h[node].type = "Nonterminal"
    THEN Error("Detected left recursion for nonterminal '" \o h[node].name \o "'.")
    ELSE IF stringifyThrows(h, node)
    THEN TypeError("Converting circular structure to JSON")
    ELSE Error("Detected left recursion for node")

----------------------------------------------------------------------------
(* The grammars and texts the model runs.  Mark(S, i, p) wraps production  *)
(* p in cached(...) when position i is in S, so that one grammar is built   *)
(* with every choice of at most MaxCached cached elements.                  *)

Mark(S, i, p) == IF i \in S THEN Expr("cached", p) ELSE p

C(c) == Str(<<c>>)

RunOf(chars, nullable, groups) ==
    [chars |-> chars, nullable |-> nullable, groups |-> groups]

Group(name, optional) == [name |-> name, optional |-> optional]

Source(obj, start, alphabet, samples, marks) ==
    [obj |-> obj, start |-> start, alphabet |-> alphabet, samples |-> samples,
     marks |-> marks]

\* Test.ts testBasic, with anyOf or with bestOf
BasicGrammar(S, choice) ==
    Source(<<Callable("p1", Arr(<<C("a"), C("b"), C("c"),
                                  Mark(S, 1, Expr(choice, <<Fn("p2"), Fn("p3")>>))>>)),
             Callable("p2", Mark(S, 2, Arr(<<C("x"), Mark(S, 3, Fn("p4")), C("z")>>))),
             Callable("p3", Arr(<<C("x"), Fn("p4"), C("z"), C("u")>>)),
             Callable("p4", Arr(<<Mark(S, 4, C("y"))>>))>>,
           "p1", {"a"},
           {<<"a", "b", "c", "x", "y", "z", "u">>, <<"a", "b", "c", "x", "y", "z">>,
            <<"a", "b", "c", "x", "y", "u">>, <<"a", "b", "c", "x", "u">>},
           4)

\* alternatives that overlap and alternatives that tie
OverlapGrammar(S, choice) ==
    Source(<<Callable("s", Arr(<<Mark(S, 1, Expr(choice, <<Fn("t"), Mark(S, 2, Fn("u")),
                                                     Arr(<<C("a"), C("b")>>)>>)),
                                 Expr("possibly", C("a"))>>)),
             Callable("t", C("a")),
             Callable("u", Mark(S, 3, Arr(<<C("a")>>)))>>,
           "s", {"a", "b"}, {}, 3)

\* greedy repetition of a choice, followed by an optional member
RepetitionGrammar(S, repeat) ==
    Source(<<Callable("s", Arr(<<Mark(S, 1, Expr(repeat, Mark(S, 2, Expr("anyOf", <<C("a"), Fn("t")>>)))),
                                 Expr("possibly", C("b"))>>)),
             Callable("t", Arr(<<C("b"), Mark(S, 3, C("a"))>>))>>,
           "s", {"a", "b"}, {}, 3)

\* a repetition whose body is a sequence of optional members only
EmptyBodyGrammar(S) ==
    Source(<<Callable("s", Arr(<<Expr("zeroOrMore", Mark(S, 1, Arr(<<Expr("possibly", C("a"))>>))),
                                 C("b")>>))>>,
           "s", {"a", "b"}, {}, 1)

\* a repetition whose body is a nullable pattern
NullablePatternGrammar(S) ==
    LET ws == This("ws", pattern(RunOf({"a"}, TRUE, <<>>)))
    IN  Source(<<Callable("s", Arr(<<Expr("zeroOrMore", ws), Mark(S, 1, C("b"))>>)),
                 Value("ws", ws)>>,
               "s", {"a", "b"}, {}, 1)

\* test-data RegExpGrammar.disjunction: right recursion behind a required member
DisjunctionGrammar(S) ==
    Source(<<Callable("disjunction",
                      Arr(<<Fn("sequence"),
                            Expr("possibly", Arr(<<Mark(S, 1, C("b")),
                                           Mark(S, 2, Fn("disjunction"))>>))>>)),
             Callable("sequence", Mark(S, 3, Expr("oneOrMore", C("a"))))>>,
           "disjunction", {"a", "b"}, {<<"a", "b", "a", "a">>}, 3)

\* README XmlGrammar in small: pattern properties, with and without captures
DocumentGrammar(S) ==
    LET textFragment == This("textFragment", pattern(RunOf({"a"}, FALSE, <<>>)))
        tag == This("tag", pattern(RunOf({"b"}, FALSE, <<Group("tagName", FALSE)>>)))
    IN  Source(<<Callable("document",
                          Arr(<<Expr("zeroOrMore", Mark(S, 1, Expr("anyOf", <<textFragment,
                                                              Mark(S, 2, tag),
                                                              Fn("comment")>>)))>>)),
                 Value("textFragment", textFragment),
                 Value("tag", tag),
                 Callable("comment", Arr(<<C("c"), Expr("possibly", Mark(S, 3, tag))>>))>>,
               "document", {"a", "b", "c"}, {}, 3)

\* optional twins and members that may all be skipped
OptionalGrammar(S) ==
    Source(<<Callable("s", Arr(<<Expr("possibly", C("a")), Mark(S, 1, Expr("possibly", Fn("t"))),
                                 Expr("possibly", Mark(S, 2, Fn("t")))>>)),
             Callable("t", Arr(<<C("b")>>))>>,
           "s", {"a", "b"}, {}, 2)

\* a choice between a required terminal and a body that may be empty
MixedChoiceGrammar(S) ==
    Source(<<Callable("s", Arr(<<Mark(S, 1, Expr("anyOf", <<C("a"), Arr(<<Expr("possibly", C("b"))>>)>>)),
                                 C("c")>>))>>,
           "s", {"a", "b", "c"}, {}, 1)

\* spec scenario 6: x = [x, 'a']
LeftRecursiveGrammar(S) ==
    Source(<<Callable("x", Arr(<<Fn("x"), C("a")>>))>>, "x", {"a"}, {}, 0)

\* the same through the optional twin
LeftRecursiveTwinGrammar(S) ==
    Source(<<Callable("x", Arr(<<Expr("possibly", Fn("x")), C("a")>>))>>, "x", {"a"}, {}, 0)

\* a choice that can succeed empty in front of a recursive reference
HiddenRecursionGrammar(S) ==
    Source(<<Callable("x", Arr(<<Expr("anyOf", <<C("a"), Arr(<<Expr("possibly", C("b"))>>)>>),
                                 Mark(S, 1, Fn("x"))>>))>>,
           "x", {"a", "b"}, {}, 1)

\* configuration errors
MissingStartGrammar(S) ==
    Source(<<Callable("s", Arr(<<C("a")>>))>>, "t", {"a"}, {}, 0)

UnresolvedReferenceGrammar(S) ==
    Source(<<Callable("s", Arr(<<C("a"), Fn("elsewhere")>>))>>, "s", {"a"}, {}, 0)

\* mutual recursion behind a required member: y is left unresolved by the
\* depth-first pass
MutualGrammar(S) ==
    Source(<<Callable("x", Arr(<<C("a"), Expr("possibly", Mark(S, 1, Fn("y")))>>)),
             Callable("y", Mark(S, 2, Arr(<<Expr("possibly", C("b")), Fn("x")>>)))>>,
           "x", {"a", "b"}, {}, 2)

\* cycles the depth-first pass leaves unresolved: w and p need two rounds
\* of the elimination loop, q is left to the residual rule
CyclicGrammar(S) ==
    Source(<<Callable("x", Arr(<<Fn("w"), C("a")>>)),
             Callable("w", Arr(<<Expr("possibly", C("a")), Fn("p"), Fn("x")>>)),
             Callable("p", Arr(<<Expr("possibly", C("a")), Fn("w"), Fn("q")>>)),
             Callable("q", Arr(<<Expr("possibly", C("a")), Fn("q")>>))>>,
           "x", {"a"}, {}, 0)

\* a pattern with a named and an unnamed capture group
MixedGroupsGrammar(S) ==
    LET item == This("item", pattern(RunOf({"a"}, FALSE,
                                           <<Group("name", FALSE), Group("", FALSE)>>)))
    IN  Source(<<Callable("s", Arr(<<item, Expr("possibly", C("b"))>>)),
                 Value("item", item)>>,
               "s", {"a", "b"}, {}, 0)

\* alternatives that share a prefix and fail on the same terminals, and a
\* last one that fails before them
AlternativesGrammar(S) ==
    Source(<<Callable("s", Expr("anyOf", <<Arr(<<C("a"), C("b")>>),
                                           Arr(<<C("a"), Mark(S, 1, C("c"))>>),
                                           Arr(<<C("a"), C("b")>>),
                                           C("c")>>))>>,
           "s", {"a", "b", "c"}, {}, 1)

\* a reference held by a non-callable property: opt = possibly(this.t)
PropertyReferenceGrammar(S) ==
    LET opt == This("opt", possibly(Fn("t")))
    IN  Source(<<Callable("t", Arr(<<C("b")>>)),
                 Value("opt", opt),
                 Callable("s", Arr(<<C("a"), Mark(S, 1, opt), Expr("oneOrMore", Fn("t"))>>))>>,
               "s", {"a", "b"}, {}, 1)

GrammarNames ==
    {"Basic-anyOf", "Basic-bestOf", "Overlap-anyOf", "Overlap-bestOf",
     "Repetition-zeroOrMore", "Repetition-oneOrMore", "EmptyBody",
     "NullablePattern", "Disjunction", "Document", "Optional", "Mutual",
     "LeftRecursive", "LeftRecursiveTwin", "HiddenRecursion", "MissingStart",
     "UnresolvedReference", "Alternatives",
     "PropertyReference", "MixedChoice",
     "Cyclic", "MixedGroups"}

SourceOf(name, S) ==
    CASE name = "Basic-anyOf" -> BasicGrammar(S, "anyOf")
      [] name = "Basic-bestOf" -> BasicGrammar(S, "bestOf")
      [] name = "Overlap-anyOf" -> OverlapGrammar(S, "anyOf")
      [] name = "Overlap-bestOf" -> OverlapGrammar(S, "bestOf")
      [] name = "Repetition-zeroOrMore" -> RepetitionGrammar(S, "zeroOrMore")
      [] name = "Repetition-oneOrMore" -> RepetitionGrammar(S, "oneOrMore")
      [] name = "EmptyBody" -> EmptyBodyGrammar(S)
      [] name = "NullablePattern" -> NullablePatternGrammar(S)
      [] name = "Disjunction" -> DisjunctionGrammar(S)
      [] name = "Document" -> DocumentGrammar(S)
      [] name = "Optional" -> OptionalGrammar(S)
      [] name = "Mutual" -> MutualGrammar(S)
      [] name = "LeftRecursive" -> LeftRecursiveGrammar(S)
      [] name = "LeftRecursiveTwin" -> LeftRecursiveTwinGrammar(S)
      [] name = "HiddenRecursion" -> HiddenRecursionGrammar(S)
      [] name = "MissingStart" -> MissingStartGrammar(S)
      [] name = "UnresolvedReference" -> UnresolvedReferenceGrammar(S)
      [] name = "Alternatives" -> AlternativesGrammar(S)
      [] name = "MixedChoice" -> MixedChoiceGrammar(S)
      [] name = "Cyclic" -> CyclicGrammar(S)
      [] name = "MixedGroups" -> MixedGroupsGrammar(S)
      [] name = "PropertyReference" -> PropertyReferenceGrammar(S)

\* a grammar of the catalogue with the marked positions S wrapped in cached
Sources ==
    UNION {{[name |-> n, cached |-> S] :
               S \in {T \in SUBSET (1..SourceOf(n, {}).marks) :
                          Cardinality(T) <= MaxCached}} :
           n \in GrammarNames}

Inputs(src) == SeqsUpTo(src.alphabet, MaxInputLen) \cup src.samples

SourceTable == [s \in Sources |-> SourceOf(s.name, s.cached)]

InputTable == [n \in GrammarNames |-> Inputs(SourceOf(n, {}))]

\* the grammar object and start production name of the run
Src == SourceTable[source]

----------------------------------------------------------------------------
(* State after construction: a grammar object and a text, nothing built.   *)

NoGrammar == [rootElement |-> 0, productions |-> <<>>, maxElementId |-> 0]

NoReturn == [pending |-> FALSE, value |-> <<>>]

ParserIdle ==
    /\ pass = 0
    /\ stack = <<>>
    /\ ret = NoReturn
    /\ cachedParseResults = <<>>
    /\ bestFailedMatches = <<>>
    /\ bestFailedMatchesOffset = -1
    /\ evalLog = <<>>
    /\ outcomes = <<>>

InitWith(srcs) ==
    /\ source \in srcs
    /\ inputString \in InputTable[source.name]
    /\ phase = "buildGrammar"
    /\ heap = <<>>
    /\ uniqueIdCounter = 0
    /\ lookup = <<>>
    /\ startNonterminal = 0
    /\ visitedNodes = {}
    /\ resolvedNodes = <<>>
    /\ unresolvedNodes = <<>>
    /\ buildError = NoError
    /\ grammar = NoGrammar
    /\ ParserIdle

Init == InitWith(Sources)

parserVars == <<pass, stack, ret, cachedParseResults, bestFailedMatches,
                bestFailedMatchesOffset, evalLog, outcomes>>

analysisVars == <<visitedNodes, resolvedNodes, unresolvedNodes>>

----------------------------------------------------------------------------
(* buildGrammar, in the order of its body.                                  *)

\* lines 315-358: inventory, preparation of every production, start lookup
prepared(obj, start, inv) ==
    IF inv.failed
    THEN [heap |-> <<>>, next |-> 0, addr |-> 0, err |-> Error(inv.thrown.message)]
    ELSE LET st == prepareAll([heap |-> InventoryHeap(inv.nonterminals),
                               next |-> 0, addr |-> 0, err |-> NoError],
                              obj, inv.nonterminals, 1)
         IN  IF st.err = NoError /\ nonterminalLookup(obj, start) = 0
             THEN [st EXCEPT !.err = Error("Couldn't find a start production named '"
                                           \o start \o "'.")]
             ELSE st

PrepareGrammar ==
    /\ phase = "buildGrammar"
    /\ \E src \in {Src} :
         \E st \in {prepared(src.obj, src.start, Inventory(src.obj))} :
            /\ heap' = st.heap
            /\ uniqueIdCounter' = st.next
            /\ lookup' = [k \in {src.obj[i].key : i \in Range(CallableKeys(src.obj))} |->
                             nonterminalLookup(src.obj, k)]
            /\ startNonterminal' = IF st.err = NoError
                                    THEN nonterminalLookup(src.obj, src.start)
                                    ELSE 0
            /\ buildError' = st.err
            /\ phase' = IF st.err = NoError THEN "analysis" ELSE "failed"
    /\ UNCHANGED <<source, inputString, grammar>>
    /\ UNCHANGED analysisVars
    /\ UNCHANGED parserVars

\* line 528: the depth-first pass from the start nonterminal
DepthFirstPass ==
    /\ phase = "analysis"
    /\ LET r == processDepthFirst(AnalysisStart, heap, startNonterminal)
       IN  /\ visitedNodes' = r.visited
           /\ resolvedNodes' = r.resolved
           /\ unresolvedNodes' = r.unresolved
           /\ phase' = IF Len(r.unresolved) > 0 THEN "eliminate" ELSE "closure"
    /\ UNCHANGED <<source, inputString, heap, uniqueIdCounter, lookup,
                   startNonterminal, buildError, grammar>>
    /\ UNCHANGED parserVars

\* lines 532-578: one iteration of the elimination loop
EliminationRound ==
    /\ phase = "eliminate"
    /\ LET r == eliminationRound(resolvedNodes, unresolvedNodes, 1, <<>>, FALSE)
       IN  /\ resolvedNodes' = r.resolved
           /\ unresolvedNodes' = r.unresolved
           /\ phase' = IF Len(r.unresolved) > 0 /\ r.progress
                       THEN "eliminate" ELSE "closure"
    /\ UNCHANGED <<source, inputString, heap, uniqueIdCounter, lookup,
                   startNonterminal, buildError, grammar, visitedNodes>>
    /\ UNCHANGED parserVars

\* lines 580-590: residual closure, then the verdicts are written on the nodes
AnnotateOptional ==
    /\ phase = "closure"
    /\ resolvedNodes' = residualClosure(resolvedNodes, unresolvedNodes)
    /\ unresolvedNodes' = <<>>
    /\ heap' = annotate(heap, resolvedNodes')
    /\ phase' = "leftRecursion"
    /\ UNCHANGED <<source, inputString, uniqueIdCounter, lookup, startNonterminal,
                   buildError, grammar, visitedNodes>>
    /\ UNCHANGED parserVars

\* lines 361-373: left-recursion detection, then the Grammar is packaged
DetectLeftRecursion ==
    /\ phase = "leftRecursion"
    /\ LET r == detect(heap, startNonterminal, {})
       IN  IF r.thrown
           THEN /\ buildError' = leftRecursionError(heap, r.at)
                /\ grammar' = grammar
                /\ phase' = "failed"
           ELSE /\ buildError' = buildError
                /\ grammar' = [rootElement |-> startNonterminal,
                               productions |-> lookup,
                               maxElementId |-> uniqueIdCounter]
                /\ phase' = "built"
    /\ UNCHANGED <<source, inputString, heap, uniqueIdCounter, lookup,
                   startNonterminal>>
    /\ UNCHANGED analysisVars
    /\ UNCHANGED parserVars

Build ==
    \/ PrepareGrammar
    \/ DepthFirstPass
    \/ EliminationRound
    \/ AnnotateOptional
    \/ DetectLeftRecursion

----------------------------------------------------------------------------
(* parse(inputString, grammar): results, tree nodes and the parser's state  *)

inputLength == Len(inputString)

\* inputString.substring(from, to), offsets counted from 0
substring(from, to) == SubSeq(inputString, from + 1, to)

\* Beside the fields of the code's ParseResult a result carries `consumed`,
\* the spans <<start, end>> of the terminal matches it was made of, in the
\* order they were made: a record of the derivation, read by no operation.
NullResult ==
    [ok |-> FALSE, endOffset |-> -1, hasNodes |-> FALSE, nodes |-> <<>>,
     consumed |-> <<>>]

\* { endOffset, nodes }: nodes is undefined when hasNodes is FALSE
ParseResult(endOffset, hasNodes, nodes) ==
    [ok |-> TRUE, endOffset |-> endOffset, hasNodes |-> hasNodes, nodes |-> nodes,
     consumed |-> <<>>]

\* the successful result, made of the terminal matches `spans`
Consuming(result, spans) ==
    IF result.ok THEN [result EXCEPT !.consumed = spans] ELSE result

\* nodes.length > 0 ? nodes : undefined
ResultOfNodes(endOffset, nodes) == ParseResult(endOffset, Len(nodes) > 0, nodes)

\* a tree node that carries the whole input as its sourceText
ParseTreeNodeUnsliced(name, startOffset, endOffset, hasChildren, children) ==
    [name |-> name, startOffset |-> startOffset, endOffset |-> endOffset,
     sourceText |-> inputString,
     hasChildren |-> hasChildren, children |-> children]

ParseTreeNode(name, startOffset, endOffset, hasChildren, children) ==
    [name |-> name, startOffset |-> startOffset, endOffset |-> endOffset,
     sourceText |-> substring(startOffset, endOffset),
     hasChildren |-> hasChildren, children |-> children]

\* the grammar a parse call is given: the built one in the second call; in
\* the first call the same grammar with uncached(...) in place of cached(...)
ParsedGrammar ==
    IF pass = 1
    THEN [a \in 1..Len(heap) |->
             IF heap[a].cached = "true" THEN [heap[a] EXCEPT !.cached = "false"]
             ELSE heap[a]]
    ELSE heap

Frame(node, startOffset) ==
    [node |-> node, startOffset |-> startOffset, pc |-> "call", store |-> FALSE,
     index |-> 1, readOffset |-> startOffset, nodes |-> <<>>,
     bestResult |-> NullResult, consumed |-> <<>>]

Top == stack[Len(stack)]

TopNode == ParsedGrammar[Top.node]

Below == SubSeq(stack, 1, Len(stack) - 1)

\* an update that takes every failure for the furthest one
updateBestFailedMatchesAlways(matches, offset, terminal, startOffset) ==
    [matches |-> <<terminal>>, offset |-> startOffset]

\* updateBestFailedMatchesIfNeeded, as the pair [matches, offset] it leaves
updateBestFailedMatchesIfNeeded(matches, offset, terminal, startOffset) ==
    IF startOffset >= offset
    THEN IF startOffset > offset
         THEN [matches |-> <<terminal>>, offset |-> startOffset]
         ELSE [matches |-> Append(matches, terminal), offset |-> offset]
    ELSE [matches |-> matches, offset |-> offset]

\* a store that keeps a failure whatever the result was
cacheSetFailure(cache, startOffset, node, result) ==
    [cache EXCEPT ![startOffset] = (node :> NullResult) @@ cache[startOffset]]

\* slot.set(grammarElement, parseResult) in the slot of startOffset
cacheSet(cache, startOffset, node, result) ==
    [cache EXCEPT ![startOffset] = (node :> result) @@ cache[startOffset]]

\* the slot of startOffset exists and holds an entry for the node
cacheHas(cache, startOffset, node) ==
    /\ startOffset \in DOMAIN cache
    /\ node \in DOMAIN cache[startOffset]

\* the test of tryParse (line 22)
usesCache(n) == n.cached = "true"

\* a tryParse invocation ends with `result`: tryParseCached stores it, and
\* the caller receives it
Deliver(result) ==
    /\ stack' = Below
    /\ ret' = [pending |-> TRUE, value |-> result]
    /\ cachedParseResults' =
           IF Top.store
           THEN cacheSet(cachedParseResults, Top.startOffset, Top.node, result)
           ELSE cachedParseResults

Called(hit) ==
    evalLog' = Append(evalLog, [node |-> Top.node, startOffset |-> Top.startOffset,
                                depth |-> Len(stack), hit |-> hit])

Continue(frame) == stack' = Append(Below, frame)

Call(frame, node, startOffset) ==
    stack' = Append(Append(Below, frame), Frame(node, startOffset))

buildFrame == <<source, inputString, heap, uniqueIdCounter, lookup,
                startNonterminal, buildError, grammar, visitedNodes, resolvedNodes,
                unresolvedNodes>>

bestFailed == <<bestFailedMatches, bestFailedMatchesOffset>>

Parsing == phase = "parsing" /\ stack # <<>>

----------------------------------------------------------------------------
(* tryParse and tryParseCached (lines 21-53)                                *)

\* grammarElement.cached === true and the slot holds a result (null included)
TryParseCachedHit ==
    /\ Parsing /\ Top.pc = "call" /\ Len(evalLog) < MaxEvals
    /\ usesCache(TopNode)
    /\ cacheHas(cachedParseResults, Top.startOffset, Top.node)
    /\ Called(TRUE)
    /\ stack' = Below
    /\ ret' = [pending |-> TRUE,
               value |-> cachedParseResults[Top.startOffset][Top.node]]
    /\ UNCHANGED <<phase, pass, cachedParseResults, outcomes>>
    /\ UNCHANGED bestFailed
    /\ UNCHANGED buildFrame

\* grammarElement.cached === true, nothing stored: the slot is created when
\* missing, tryParseUncached runs and its result will be stored
TryParseCachedMiss ==
    /\ Parsing /\ Top.pc = "call" /\ Len(evalLog) < MaxEvals
    /\ usesCache(TopNode)
    /\ ~cacheHas(cachedParseResults, Top.startOffset, Top.node)
    /\ Called(FALSE)
    /\ cachedParseResults' =
           IF Top.startOffset \in DOMAIN cachedParseResults THEN cachedParseResults
           ELSE (Top.startOffset :> <<>>) @@ cachedParseResults
    /\ Continue([Top EXCEPT !.pc = "run", !.store = TRUE])
    /\ UNCHANGED <<phase, pass, ret, outcomes>>
    /\ UNCHANGED bestFailed
    /\ UNCHANGED buildFrame

TryParseUncached ==
    /\ Parsing /\ Top.pc = "call" /\ Len(evalLog) < MaxEvals
    /\ ~usesCache(TopNode)
    /\ Called(FALSE)
    /\ Continue([Top EXCEPT !.pc = "run"])
    /\ UNCHANGED <<phase, pass, ret, cachedParseResults, outcomes>>
    /\ UNCHANGED bestFailed
    /\ UNCHANGED buildFrame

----------------------------------------------------------------------------
(* tryParseUncached, by element type (lines 55-258)                         *)

Running(type) == Parsing /\ Top.pc = "run" /\ TopNode.type = type

Waiting(type) == Parsing /\ Top.pc = "wait" /\ TopNode.type = type /\ ret.pending

\* a string terminal without the test against the input length: at the end
\* of the input it matches on the characters that are left
stringTerminalResultUnchecked(n, startOffset) ==
    LET target == n.content
        endOffset == startOffset + Len(target)
        left == IF endOffset > inputLength THEN inputLength ELSE endOffset
    IN  IF substring(startOffset, left) = SubSeq(target, 1, left - startOffset)
        THEN Consuming(ParseResult(endOffset, FALSE, <<>>),
                       <<(<<startOffset, endOffset>>)>>)
        ELSE NullResult

\* a string terminal that reports an end one past its match, when the
\* input goes on
stringTerminalResultPastEnd(n, startOffset) ==
    LET target == n.content
        endOffset == startOffset + Len(target)
    IN  IF endOffset > inputLength THEN NullResult
        ELSE IF substring(startOffset, endOffset) = target
        THEN Consuming(ParseResult(IF endOffset < inputLength THEN endOffset + 1
                                   ELSE endOffset, FALSE, <<>>),
                       <<(<<startOffset, endOffset>>)>>)
        ELSE NullResult

\* lines 57-79
stringTerminalResult(n, startOffset) ==
    LET target == n.content
        endOffset == startOffset + Len(target)
    IN  IF endOffset > inputLength THEN NullResult
        ELSE IF substring(startOffset, endOffset) = target
        THEN Consuming(ParseResult(endOffset, FALSE, <<>>),
                       <<(<<startOffset, endOffset>>)>>)
        ELSE NullResult

FailTerminal(result) ==
    LET b == IF result.ok
             THEN [matches |-> bestFailedMatches, offset |-> bestFailedMatchesOffset]
             ELSE updateBestFailedMatchesIfNeeded(bestFailedMatches,
                                                  bestFailedMatchesOffset,
                                                  Top.node, Top.startOffset)
    IN  /\ bestFailedMatches' = b.matches
        /\ bestFailedMatchesOffset' = b.offset

StringTerminalRun ==
    /\ Running("StringTerminal")
    /\ LET result == stringTerminalResult(TopNode, Top.startOffset)
       IN  /\ FailTerminal(result)
           /\ Deliver(result)
    /\ UNCHANGED <<phase, pass, evalLog, outcomes>>
    /\ UNCHANGED buildFrame

\* regExp.exec(substringToMatch) for the anchored run: the length of the
\* match, or -1 for no match
RECURSIVE runLength(_, _)
runLength(chars, from) ==
    IF from < inputLength /\ inputString[from + 1] \in chars
    THEN 1 + runLength(chars, from + 1)
    ELSE 0

exec(p, startOffset) ==
    LET k == runLength(p.chars, startOffset)
    IN  IF k = 0 /\ ~p.nullable THEN -1 ELSE k

\* indices only for a pattern that has capture groups
hasIndicesWithGroups(p) == Len(p.groups) > 0

\* matchResults.indices is there for every pattern the composer compiles
\* (README: patterns without capture groups show "children": [])
hasIndices(p) == TRUE

namedGroups(p) ==
    LET RECURSIVE Names(_)
        Names(i) == IF i > Len(p.groups) THEN <<>>
                    ELSE IF p.groups[i].name # "" THEN <<p.groups[i].name>> \o Names(i + 1)
                    ELSE Names(i + 1)
    IN  Names(1)

\* lines 111-113: named and unnamed groups in one pattern
mixesGroups(p) ==
    /\ Len(namedGroups(p)) > 0
    /\ Len(namedGroups(p)) # Len(p.groups)

\* lines 116-135: one child per capture group that took part in the match
RECURSIVE captureChildren(_, _, _, _)
captureChildren(p, i, startOffset, k) ==
    IF i > Len(p.groups) THEN <<>>
    ELSE IF p.groups[i].optional /\ k = 0
    THEN captureChildren(p, i + 1, startOffset, k)
    ELSE <<ParseTreeNode(IF Len(namedGroups(p)) > 0 THEN namedGroups(p)[i]
                         ELSE ToString(i),
                         startOffset, startOffset + k, FALSE, <<>>)>>
         \o captureChildren(p, i + 1, startOffset, k)

\* lines 81-152, for a pattern that does not mix named and unnamed groups
patternTerminalResult(n, startOffset) ==
    IF startOffset >= inputLength THEN NullResult
    ELSE LET k == exec(n.pattern, startOffset)
         IN  IF k < 0 THEN NullResult
             ELSE IF hasIndices(n.pattern)
             THEN Consuming(ParseResult(startOffset + k, TRUE,
                      <<ParseTreeNode(n.name, startOffset, startOffset + k, TRUE,
                                      captureChildren(n.pattern, 1, startOffset, k))>>),
                      <<(<<startOffset, startOffset + k>>)>>)
             ELSE Consuming(ParseResult(startOffset + k, FALSE, <<>>),
                            <<(<<startOffset, startOffset + k>>)>>)

\* the pattern matched and line 112 throws
patternThrows(n, startOffset) ==
    /\ startOffset < inputLength
    /\ exec(n.pattern, startOffset) >= 0
    /\ hasIndices(n.pattern)
    /\ mixesGroups(n.pattern)

MixedGroupsError ==
    Error("The regular expression contains a combination of named and unnamed groups.")

Thrown1(error) == [returned |-> FALSE, nodes |-> <<>>, error |-> error]

Returned(nodes) == [returned |-> TRUE, nodes |-> nodes, error |-> NoError]

\* the state a parse call leaves when it returns or throws `outcome`
EndParse(outcome) ==
    /\ outcomes' = Append(outcomes, outcome)
    /\ phase' = IF pass = 1 THEN "built" ELSE "done"

PatternTerminalRun ==
    /\ Running("PatternTerminal")
    /\ IF patternThrows(TopNode, Top.startOffset)
       THEN /\ EndParse(Thrown1(MixedGroupsError))
            /\ stack' = <<>>
            /\ UNCHANGED <<ret, cachedParseResults>>
            /\ UNCHANGED bestFailed
       ELSE LET result == patternTerminalResult(TopNode, Top.startOffset)
            IN  /\ FailTerminal(result)
                /\ Deliver(result)
                /\ UNCHANGED <<phase, outcomes>>
    /\ UNCHANGED <<pass, evalLog>>
    /\ UNCHANGED buildFrame

\* lines 154-155
NonterminalRun ==
    /\ Running("Nonterminal") /\ Len(stack) < MaxDepth
    /\ Call([Top EXCEPT !.pc = "wait"], TopNode.members[1], Top.startOffset)
    /\ UNCHANGED <<phase, pass, ret, cachedParseResults, evalLog, outcomes>>
    /\ UNCHANGED bestFailed
    /\ UNCHANGED buildFrame

\* lines 157-174: the wrapper node around the content's nodes
nonterminalResult(n, startOffset, result) ==
    IF ~result.ok THEN NullResult
    ELSE Consuming(ParseResult(result.endOffset, TRUE,
                       <<ParseTreeNode(n.name, startOffset, result.endOffset,
                                       result.hasNodes, result.nodes)>>),
                   result.consumed)

NonterminalReturn ==
    /\ Waiting("Nonterminal")
    /\ Deliver(nonterminalResult(TopNode, Top.startOffset, ret.value))
    /\ UNCHANGED <<phase, pass, evalLog, outcomes>>
    /\ UNCHANGED bestFailed
    /\ UNCHANGED buildFrame

\* lines 181-182: the next member is tried at readOffset
SequenceRun ==
    /\ Running("Sequence") /\ Len(stack) < MaxDepth
    /\ Top.index <= Len(TopNode.members)
    /\ Call([Top EXCEPT !.pc = "wait"], TopNode.members[Top.index], Top.readOffset)
    /\ UNCHANGED <<phase, pass, ret, cachedParseResults, evalLog, outcomes>>
    /\ UNCHANGED bestFailed
    /\ UNCHANGED buildFrame

\* a sequence that skips every failed member
sequenceFailsNever(member) == FALSE

\* line 188: a failed member ends the sequence unless it is optional
sequenceFails(member) == member.optional = FALSE

\* lines 184-190
SequenceReturn ==
    /\ Waiting("Sequence")
    /\ LET member == ParsedGrammar[TopNode.members[Top.index]]
       IN  IF ret.value.ok
           THEN /\ Continue([Top EXCEPT !.pc = "run", !.index = @ + 1,
                                        !.readOffset = ret.value.endOffset,
                                        !.nodes = @ \o ret.value.nodes,
                                        !.consumed = @ \o ret.value.consumed])
                /\ ret' = NoReturn
                /\ UNCHANGED cachedParseResults
           ELSE IF sequenceFails(member)
           THEN Deliver(NullResult)
           ELSE /\ Continue([Top EXCEPT !.pc = "run", !.index = @ + 1])
                /\ ret' = NoReturn
                /\ UNCHANGED cachedParseResults
    /\ UNCHANGED <<phase, pass, evalLog, outcomes>>
    /\ UNCHANGED bestFailed
    /\ UNCHANGED buildFrame

\* lines 193-204
SequenceFinish ==
    /\ Running("Sequence")
    /\ Top.index > Len(TopNode.members)
    /\ Deliver(Consuming(ResultOfNodes(Top.readOffset, Top.nodes), Top.consumed))
    /\ UNCHANGED <<phase, pass, evalLog, outcomes>>
    /\ UNCHANGED bestFailed
    /\ UNCHANGED buildFrame

\* lines 212-213: while (true), the content is tried at readOffset
RepetitionRun ==
    /\ Running("Repetition") /\ Len(stack) < MaxDepth
    /\ Call([Top EXCEPT !.pc = "wait"], TopNode.members[1], Top.readOffset)
    /\ UNCHANGED <<phase, pass, ret, cachedParseResults, evalLog, outcomes>>
    /\ UNCHANGED bestFailed
    /\ UNCHANGED buildFrame

\* line 215: what ends the loop
repetitionBreaks(result, readOffset) == ~result.ok

\* a repetition that succeeds without having advanced
repetitionResultAlways(startOffset, readOffset, nodes) == ResultOfNodes(readOffset, nodes)

\* lines 226-233
repetitionResult(startOffset, readOffset, nodes) ==
    IF readOffset > startOffset THEN ResultOfNodes(readOffset, nodes)
    ELSE NullResult

\* lines 215-233
RepetitionReturn ==
    /\ Waiting("Repetition")
    /\ IF repetitionBreaks(ret.value, Top.readOffset)
       THEN Deliver(Consuming(repetitionResult(Top.startOffset, Top.readOffset,
                                               Top.nodes),
                              Top.consumed))
       ELSE /\ Continue([Top EXCEPT !.pc = "run",
                                    !.readOffset = ret.value.endOffset,
                                    !.nodes = @ \o ret.value.nodes,
                                    !.consumed = @ \o ret.value.consumed])
            /\ ret' = NoReturn
            /\ UNCHANGED cachedParseResults
    /\ UNCHANGED <<phase, pass, evalLog, outcomes>>
    /\ UNCHANGED bestFailed
    /\ UNCHANGED buildFrame

\* lines 239-240
ChoiceRun ==
    /\ Running("Choice") /\ Len(stack) < MaxDepth
    /\ Top.index <= Len(TopNode.members)
    /\ Call([Top EXCEPT !.pc = "wait"], TopNode.members[Top.index], Top.startOffset)
    /\ UNCHANGED <<phase, pass, ret, cachedParseResults, evalLog, outcomes>>
    /\ UNCHANGED bestFailed
    /\ UNCHANGED buildFrame

\* a comparison that lets a later member win a tie
choiceImprovesOnTie(result, bestResult) ==
    result.ok /\ (~bestResult.ok \/ result.endOffset >= bestResult.endOffset)

\* line 242: the member's result replaces the best one so far
choiceImproves(result, bestResult) ==
    result.ok /\ (~bestResult.ok \/ result.endOffset > bestResult.endOffset)

\* a Choice loop that is never left early
choiceNeverBreaks(n) == FALSE

\* line 245: the loop is left at the first success
choiceBreaks(n) == n.exhaustive = FALSE

\* lines 242-251
ChoiceReturn ==
    /\ Waiting("Choice")
    /\ IF choiceImproves(ret.value, Top.bestResult)
       THEN IF choiceBreaks(TopNode)
            THEN Deliver(ret.value)
            ELSE /\ Continue([Top EXCEPT !.pc = "run", !.index = @ + 1,
                                         !.bestResult = ret.value])
                 /\ ret' = NoReturn
                 /\ UNCHANGED cachedParseResults
       ELSE /\ Continue([Top EXCEPT !.pc = "run", !.index = @ + 1])
            /\ ret' = NoReturn
            /\ UNCHANGED cachedParseResults
    /\ UNCHANGED <<phase, pass, evalLog, outcomes>>
    /\ UNCHANGED bestFailed
    /\ UNCHANGED buildFrame

\* line 251
ChoiceFinish ==
    /\ Running("Choice")
    /\ Top.index > Len(TopNode.members)
    /\ Deliver(Top.bestResult)
    /\ UNCHANGED <<phase, pass, evalLog, outcomes>>
    /\ UNCHANGED bestFailed
    /\ UNCHANGED buildFrame

----------------------------------------------------------------------------
(* parse: entry, final check and error reporter (lines 3-8, 260-290)        *)

\* a working state that outlives the call
workingStateShared ==
    [cachedParseResults |-> cachedParseResults,
     bestFailedMatches |-> bestFailedMatches,
     bestFailedMatchesOffset |-> bestFailedMatchesOffset]

\* lines 7-8 and 31: the locals a call of parse starts with
workingState ==
    [cachedParseResults |-> <<>>, bestFailedMatches |-> <<>>,
     bestFailedMatchesOffset |-> -1]

\* grammar.parse(inputString): fresh working state, tryParse(rootElement, 0)
ParseStart ==
    /\ phase = "built"
    /\ pass' = pass + 1
    /\ phase' = "parsing"
    /\ stack' = <<Frame(grammar.rootElement, 0)>>
    /\ ret' = NoReturn
    /\ cachedParseResults' = workingState.cachedParseResults
    /\ bestFailedMatches' = workingState.bestFailedMatches
    /\ bestFailedMatchesOffset' = workingState.bestFailedMatchesOffset
    /\ evalLog' = <<>>
    /\ UNCHANGED outcomes
    /\ UNCHANGED buildFrame

\* a list that keeps repeated names
withDuplicates(names) == names

\* [...(new Set(possibleMatches))]: first occurrences, in order
RECURSIVE withoutDuplicates(_)
withoutDuplicates(names) ==
    IF names = <<>> THEN <<>>
    ELSE LET front == withoutDuplicates(SubSeq(names, 1, Len(names) - 1))
             last == names[Len(names)]
         IN  IF last \in Range(front) THEN front ELSE Append(front, last)

\* lines 268-274
possibleMatch(n) ==
    IF n.type = "StringTerminal" THEN "'" \o Join(n.content, "") \o "'"
    ELSE n.name

\* lines 276-284
possibleMatchesString(names) ==
    IF Len(names) > 1 THEN "any of " \o Join(names, ", ") ELSE names[1]

\* a final check that forgets to compare the last node's end with the input length
parseSucceedsAnyLength(result) ==
    /\ result.ok
    /\ result.hasNodes

\* the condition of line 264 on the result of the top-level call
parseSucceeds(result) ==
    /\ result.ok
    /\ result.hasNodes
    /\ result.nodes[Len(result.nodes)].endOffset >= inputLength

\* a return that unwraps the root's wrapper node
parseReturnValueChildren(result) == result.nodes[1].children

\* what parse returns on success (line 265)
parseReturnValue(result) == result.nodes

\* lines 267-289
parseError(g, result, matches, offset) ==
    IF Len(matches) > 0
    THEN Error("Failed parsing the input text. Expected "
               \o possibleMatchesString(withoutDuplicates(
                      [i \in 1..Len(matches) |-> possibleMatch(g[matches[i]])]))
               \o " at position " \o ToString(offset) \o ".")
    ELSE Error("Failed parsing the input text. Parsed length was "
               \o ToString(IF result.ok /\ result.hasNodes
                           THEN result.nodes[Len(result.nodes)].endOffset ELSE 0)
               \o ". Input length was " \o ToString(inputLength) \o ".")

\* lines 260-290
ParseFinish ==
    /\ phase = "parsing" /\ stack = <<>> /\ ret.pending
    /\ EndParse(IF parseSucceeds(ret.value)
                THEN Returned(parseReturnValue(ret.value))
                ELSE Thrown1(parseError(ParsedGrammar, ret.value, bestFailedMatches,
                                        bestFailedMatchesOffset)))
    /\ UNCHANGED <<pass, stack, ret, cachedParseResults, evalLog>>
    /\ UNCHANGED bestFailed
    /\ UNCHANGED buildFrame

Parse ==
    \/ ParseStart
    \/ TryParseCachedHit
    \/ TryParseCachedMiss
    \/ TryParseUncached
    \/ StringTerminalRun
    \/ PatternTerminalRun
    \/ NonterminalRun
    \/ NonterminalReturn
    \/ SequenceRun
    \/ SequenceReturn
    \/ SequenceFinish
    \/ RepetitionRun
    \/ RepetitionReturn
    \/ ChoiceRun
    \/ ChoiceReturn
    \/ ChoiceFinish
    \/ ParseFinish

Next == Build \/ Parse

Spec == Init /\ [][Next]_vars

----------------------------------------------------------------------------
(* Properties of parse's final check and return value                       *)

\* a parse call has ended and no other has started since
Finished == phase \in {"built", "done"} /\ outcomes # <<>>

\* what the parse call that ended last returned or threw
LastOutcome == outcomes[Len(outcomes)]

\* C1: parse returns a tree only when the root nonterminal matched at offset
\* 0 and that match ends exactly at the input length; when the root fails
\* or matches a proper prefix only, parse throws and returns nothing.
C1_FullMatchOrError ==
    Finished =>
        /\ LastOutcome.returned <=>
               (ret.pending /\ ret.value.ok /\ ret.value.endOffset = inputLength)
        /\ LastOutcome.returned => LastOutcome.error = NoError
        /\ ~LastOutcome.returned =>
               (LastOutcome.nodes = <<>> /\ LastOutcome.error # NoError)

\* the root matched a proper prefix of a non-empty input and parse threw
C1_Witness ==
    /\ Finished /\ ret.pending
    /\ ret.value.ok /\ ret.value.endOffset > 0 /\ ret.value.endOffset < inputLength
    /\ ~LastOutcome.returned

\* C2 as stated: on success the returned array is the children of the root
\* nonterminal's node, the wrapper itself not being an element of it.
C2_ReturnsRootChildren ==
    (Finished /\ ret.pending /\ LastOutcome.returned) =>
        LastOutcome.nodes = ret.value.nodes[1].children

\* C2 amended: on success the returned array has exactly one element, the
\* root nonterminal's own wrapper node: it carries the root production's
\* name, spans the whole input, and its children are the nodes of the root's
\* content.
C2_ReturnsRootWrapper ==
    (Finished /\ ret.pending /\ LastOutcome.returned) =>
        /\ Len(LastOutcome.nodes) = 1
        /\ LastOutcome.nodes[1].name = heap[grammar.rootElement].name
        /\ LastOutcome.nodes[1].startOffset = 0
        /\ LastOutcome.nodes[1].endOffset = inputLength
        /\ LastOutcome.nodes[1].sourceText = inputString
        /\ LastOutcome.nodes = ret.value.nodes

\* a successful parse whose root node has children
C2_Witness ==
    /\ phase = "done" /\ LastOutcome.returned
    /\ Len(LastOutcome.nodes) = 1
    /\ Len(LastOutcome.nodes[1].children) > 0

----------------------------------------------------------------------------
(* Properties of Choice                                                     *)

abcxyzu == <<"a", "b", "c", "x", "y", "z", "u">>

\* the frame of the Choice invocation on top, moved on to its next member
NextMember(best) ==
    Append(Below, [Top EXCEPT !.pc = "run", !.index = @ + 1, !.bestResult = best])

\* every member of a Choice is tried at the offset the Choice was called at,
\* in declaration order
MembersInOrder ==
    (Running("Choice") /\ Len(stack') > Len(stack)) =>
        /\ Top.index \in 1..Len(TopNode.members)
        /\ stack'[Len(stack')].node = TopNode.members[Top.index]
        /\ stack'[Len(stack')].startOffset = Top.startOffset

AnyOfStep ==
    /\ MembersInOrder
    \* a failed member sends the loop to the next member
    /\ (Waiting("Choice") /\ ~TopNode.exhaustive /\ ~ret.value.ok) =>
           (stack' = NextMember(NullResult) /\ ~ret'.pending)
    \* the first success is the result, and the invocation is over
    /\ (Waiting("Choice") /\ ~TopNode.exhaustive /\ ret.value.ok) =>
           (stack' = Below /\ ret' = [pending |-> TRUE, value |-> ret.value])
    \* without a success the result is null, once every member was tried
    /\ (Running("Choice") /\ ~TopNode.exhaustive /\ stack' = Below) =>
           (Top.index > Len(TopNode.members) /\ ret'.value = NullResult)

\* testBasic: p2 is chosen, p1 spans 0..6, the parse fails
AnyOfExample ==
    (source.name = "Basic-anyOf" /\ inputString = abcxyzu /\ Finished) =>
        /\ ~LastOutcome.returned
        /\ ret.pending /\ ret.value.ok
        /\ ret.value.nodes[1].name = "p1"
        /\ ret.value.nodes[1].startOffset = 0
        /\ ret.value.nodes[1].endOffset = 6
        /\ ret.value.nodes[1].children[1].name = "p2"

\* C3: an anyOf Choice yields the result of the first member, in declaration
\* order, that succeeds at the offset; the members after it are not
\* evaluated and the Choice is not resumed later; on 'abcxyzu' the p1..p4
\* grammar chooses p2 (p1 spans 0..6) and the parse fails.
C3_AnyOfFirstSuccess == [][AnyOfStep /\ AnyOfExample']_vars

\* p2 was chosen on 'abcxyzu', p3 was never tried, and the parse failed
C3_Witness ==
    /\ source.name = "Basic-anyOf" /\ inputString = abcxyzu
    /\ phase = "done" /\ ~LastOutcome.returned
    /\ \A i \in 1..Len(evalLog) : heap[evalLog[i].node].name # "p3"

\* the better of the best result so far and a member's result: the larger
\* endOffset, the earlier one on a tie
Better(best, result) ==
    IF result.ok /\ (~best.ok \/ result.endOffset > best.endOffset) THEN result
    ELSE best

BestOfStep ==
    /\ MembersInOrder
    \* every member's result is compared, and the loop goes on
    /\ (Waiting("Choice") /\ TopNode.exhaustive) =>
           (stack' = NextMember(Better(Top.bestResult, ret.value)) /\ ~ret'.pending)
    \* the result is the best one, once every member was tried
    /\ (Running("Choice") /\ TopNode.exhaustive /\ stack' = Below) =>
           (Top.index > Len(TopNode.members) /\ ret'.value = Top.bestResult)

\* testBasic with bestOf: p3 wins, the parse succeeds spanning 0..7
BestOfExample ==
    (source.name = "Basic-bestOf" /\ inputString = abcxyzu /\ Finished) =>
        /\ LastOutcome.returned
        /\ Len(LastOutcome.nodes) = 1
        /\ LastOutcome.nodes[1].name = "p1"
        /\ LastOutcome.nodes[1].startOffset = 0
        /\ LastOutcome.nodes[1].endOffset = 7
        /\ LastOutcome.nodes[1].children[1].name = "p3"

\* C4: a bestOf Choice evaluates every member at the offset and yields the
\* successful result with the largest endOffset, the member declared first
\* winning a tie, and null only if every member fails; on 'abcxyzu' the
\* p1..p4 grammar with bestOf lets p3 win and the parse succeeds, 0..7.
C4_BestOfLongest == [][BestOfStep /\ BestOfExample']_vars

\* a later member of a bestOf ties with the best result so far
C4_Witness ==
    /\ Waiting("Choice") /\ TopNode.exhaustive
    /\ ret.value.ok /\ Top.bestResult.ok
    /\ ret.value.endOffset = Top.bestResult.endOffset
    /\ ret.value # Top.bestResult

----------------------------------------------------------------------------
(* Properties of the cache                                                  *)

\* C5: memoization is observationally neutral: with cached set on any of
\* the grammar's nodes, parse returns exactly the tree the same grammar
\* returns with caching off everywhere, and fails exactly when that fails.
C5_CacheNeutral ==
    phase = "done" =>
        /\ outcomes[1].returned = outcomes[2].returned
        /\ outcomes[1].nodes = outcomes[2].nodes

\* a successful parse in which a stored result was returned from the cache
C5_Witness ==
    /\ phase = "done" /\ LastOutcome.returned
    /\ \E i \in 1..Len(evalLog) : evalLog[i].hit /\ evalLog[i].startOffset > 0

\* C6: every element passed to cached(...), a reference to another
\* production included, is in the built grammar with cached = true (so each
\* wrapped position of the grammar object accounts for a node that has it).
C6_CachedElementsCarryFlag ==
    phase = "built" =>
        Cardinality({a \in 1..Len(heap) : heap[a].cached = "true"})
            >= Cardinality(source.cached)

----------------------------------------------------------------------------
(* Properties of left-recursion detection                                   *)

\* the member positions of node a that lie on a leftmost edge: the content
\* of a Nonterminal or Repetition, every member of a Choice, the members of
\* a Sequence up to and including its first non-optional one
LeftmostPositions(h, a) ==
    IF h[a].type \in {"Nonterminal", "Repetition", "Choice"}
    THEN 1..Len(h[a].members)
    ELSE IF h[a].type = "Sequence"
    THEN {i \in 1..Len(h[a].members) :
             \A j \in 1..(i - 1) : h[h[a].members[j]].optional}
    ELSE {}

LeftmostEdges(h, a) == {h[a].members[i] : i \in LeftmostPositions(h, a)}

RECURSIVE LeftmostClosure(_, _, _)
LeftmostClosure(h, frontier, seen) ==
    LET next == UNION {LeftmostEdges(h, a) : a \in frontier} \ seen
    IN  IF next = {} THEN seen ELSE LeftmostClosure(h, next, seen \cup next)

LeftmostReachable(h, root) == LeftmostClosure(h, {root}, {root})

\* some node leftmost-reachable from the root reaches itself again
HasLeftmostCycle(h, root) ==
    \E a \in LeftmostReachable(h, root) :
        a \in LeftmostClosure(h, LeftmostEdges(h, a), LeftmostEdges(h, a))

\* the leftmost edges that arrive at node a, as <<origin, member position>>
LeftmostArrivals(h, root, a) ==
    UNION {{<<b, i>> : i \in {k \in LeftmostPositions(h, b) : h[b].members[k] = a}} :
           b \in LeftmostReachable(h, root)}

\* preparation and the optionality analysis succeeded and detection has run
DetectionDone ==
    /\ phase \in {"built", "parsing", "done", "failed"}
    /\ DOMAIN resolvedNodes # {}

\* C7: whenever the prepared graph has a cycle along leftmost edges,
\* buildGrammar fails with "Detected left recursion for nonterminal
\* '<name>'", whichever node of the cycle is re-entered first and whichever
\* twin the cycle passes through.
C7_LeftRecursionNamed ==
    (DetectionDone /\ HasLeftmostCycle(heap, startNonterminal)) =>
        /\ phase = "failed"
        /\ \E a \in 1..Len(heap) :
               /\ heap[a].type = "Nonterminal"
               /\ buildError = Error("Detected left recursion for nonterminal '"
                                     \o heap[a].name \o "'.")

\* C8: buildGrammar raises no left-recursion error for a grammar without a
\* cycle along leftmost edges, be it right-recursive or one in which a node
\* is reached along two different leftmost paths.
C8_NoFalseLeftRecursion ==
    (DetectionDone /\ ~HasLeftmostCycle(heap, startNonterminal)) =>
        (phase # "failed" /\ buildError = NoError)

\* a built grammar in which one node is arrived at by two leftmost edges
C8_Witness ==
    /\ phase = "built"
    /\ ~HasLeftmostCycle(heap, startNonterminal)
    /\ \E a \in 1..Len(heap) :
           Cardinality(LeftmostArrivals(heap, startNonterminal, a)) >= 2

----------------------------------------------------------------------------
(* Properties of Repetition                                                 *)

\* C9: a Repetition stops as soon as an iteration of its body succeeds
\* without advancing the cursor.
C9_RepetitionStopsWithoutProgress ==
    [][(Waiting("Repetition") /\ ret.value.ok /\ ret.value.endOffset = Top.readOffset)
           => (stack' = Below /\ ret'.pending)]_vars

----------------------------------------------------------------------------
(* Properties of the error report                                           *)

\* the terminal n does not match the input at the offset
TerminalFailsAt(n, offset) ==
    IF n.type = "StringTerminal"
    THEN ~(/\ offset + Len(n.content) <= inputLength
           /\ SubSeq(inputString, offset + 1, offset + Len(n.content)) = n.content)
    ELSE \/ offset >= inputLength
         \/ (~n.pattern.nullable /\ inputString[offset + 1] \notin n.pattern.chars)

\* the calls of the parse in which a terminal was interpreted and failed
FailedTerminalCalls ==
    LET Failed(e) == /\ ~e.hit
                     /\ heap[e.node].type \in {"StringTerminal", "PatternTerminal"}
                     /\ TerminalFailsAt(heap[e.node], e.startOffset)
    IN  SelectSeq(evalLog, Failed)

FurthestFailure ==
    CHOOSE p \in {FailedTerminalCalls[i].startOffset : i \in 1..Len(FailedTerminalCalls)} :
        \A i \in 1..Len(FailedTerminalCalls) : FailedTerminalCalls[i].startOffset <= p

TerminalLabel(n) ==
    IF n.type = "StringTerminal" THEN "'" \o Join(n.content, "") \o "'" ELSE n.name

\* the labels of the terminals that failed at the furthest offset, in order
FurthestLabels ==
    LET At(e) == e.startOffset = FurthestFailure
        calls == SelectSeq(FailedTerminalCalls, At)
    IN  [i \in 1..Len(calls) |-> TerminalLabel(heap[calls[i].node])]

RECURSIVE FirstOccurrences(_, _)
FirstOccurrences(names, i) ==
    IF i > Len(names) THEN <<>>
    ELSE (IF \E j \in 1..(i - 1) : names[j] = names[i] THEN <<>> ELSE <<names[i]>>)
         \o FirstOccurrences(names, i + 1)

ExpectedList ==
    LET names == FirstOccurrences(FurthestLabels, 1)
    IN  IF Len(names) > 1 THEN "any of " \o Join(names, ", ") ELSE names[1]

\* C10: when parse fails and a terminal failed during the run, the error is
\* 'Failed parsing the input text. Expected <list> at position <p>.', p the
\* greatest offset at which a terminal was interpreted and failed, <list>
\* the terminals that failed at p ('<content>' or the pattern's name),
\* first occurrences only, joined by ', ', after 'any of ' when several.
C10_ErrorNamesFurthestFailures ==
    (Finished /\ ret.pending /\ ~LastOutcome.returned /\ Len(FailedTerminalCalls) > 0) =>
        LastOutcome.error =
            Error("Failed parsing the input text. Expected " \o ExpectedList
                  \o " at position " \o ToString(FurthestFailure) \o ".")

\* a failed parse whose furthest failures are at the end of the input, with
\* several terminals expected there and one of them having failed twice
C10_Witness ==
    /\ Finished /\ ret.pending /\ ~LastOutcome.returned
    /\ Len(FailedTerminalCalls) > 0
    /\ FurthestFailure = inputLength
    /\ Len(FirstOccurrences(FurthestLabels, 1)) > 1
    /\ Len(FurthestLabels) > Len(FirstOccurrences(FurthestLabels, 1))

----------------------------------------------------------------------------
(* Properties of the prepared graph                                         *)

\* the nodes reached from the nodes of `frontier` through content / members
RECURSIVE Descendants(_, _, _)
Descendants(h, frontier, seen) ==
    LET next == UNION {Range(h[a].members) : a \in frontier} \ seen
    IN  IF next = {} THEN seen ELSE Descendants(h, next, seen \cup next)

\* the nodes reachable from the root nonterminal
RootNodes == Descendants(heap, {startNonterminal}, {startNonterminal})

\* the nodes reachable from the root or from an entry of Grammar.productions
GraphNodes ==
    LET roots == {startNonterminal} \cup {lookup[k] : k \in DOMAIN lookup}
    IN  Descendants(heap, roots, roots)

\* the preparation loop of buildGrammar has ended without an error
Prepared == phase # "buildGrammar" /\ buildError = NoError

\* C11: once the productions are prepared (so after buildGrammar returns),
\* no NonterminalReference is reachable from the root nonterminal or from
\* an entry of Grammar.productions: every content and member is a node of
\* the graph, none of them a reference.
C11_NoReferenceRemains ==
    Prepared =>
        \A a \in GraphNodes :
            /\ heap[a].type # "NonterminalReference"
            /\ Range(heap[a].members) \subseteq 1..Len(heap)

\* a returned grammar in which references written as a repetition's content
\* and as a sequence member (through a non-callable property) were replaced
C11_Witness ==
    /\ phase = "built"
    /\ source.name = "PropertyReference"
    /\ \E a \in RootNodes : /\ heap[a].type = "Repetition"
                            /\ heap[heap[a].members[1]].type = "Nonterminal"
    /\ \E a \in RootNodes : /\ heap[a].type = "Sequence"
                            /\ \E i \in 1..Len(heap[a].members) :
                                   /\ heap[heap[a].members[i]].type = "Nonterminal"
                                   /\ heap[heap[a].members[i]].optional

\* the uniqueIds carried by the nodes reachable from the root
RootIds == {heap[a].uniqueId : a \in RootNodes}

\* C12: after buildGrammar returns, every node reachable from the root
\* nonterminal (the root included) has a uniqueId, no two distinct
\* reachable nodes share one, and the uniqueIds of the reachable nodes are
\* exactly 0 .. maxElementId-1.
C12_UniqueIdsExact ==
    phase = "built" =>
        /\ \A a \in RootNodes : heap[a].uniqueId # Undefined
        /\ \A a, b \in RootNodes : a # b => heap[a].uniqueId # heap[b].uniqueId
        /\ RootIds = 0..(grammar.maxElementId - 1)

\* C13: after buildGrammar returns, every reachable Nonterminal and every
\* reachable PatternTerminal has a non-empty name, whether the pattern is a
\* named property of the grammar, is written inline inside a production, or
\* is a clone made by possibly / cached / uncached.
C13_NamesNonEmpty ==
    phase = "built" =>
        \A a \in RootNodes :
            heap[a].type \in {"Nonterminal", "PatternTerminal"} => heap[a].name # ""

----------------------------------------------------------------------------
(* Optionality                                                              *)

\* the graph as the builders and the preparation left it, before the
\* analysis wrote its verdicts: optional there is what the grammar declares
\* (possibly, zeroOrMore, an optional twin, a nullable pattern)
DeclaredHeap == prepared(Src.obj, Src.start, Inventory(Src.obj)).heap

\* node a matches the empty string, given that the nodes of E do: a declared
\* optional node; a nonterminal or repetition whose content does; a
\* sequence all of whose members do; a choice one of whose members does
MatchesEmptyGiven(h, a, E) ==
    \/ h[a].optional
    \/ /\ h[a].type \in {"Nonterminal", "Repetition", "Sequence"}
       /\ Range(h[a].members) \subseteq E
    \/ /\ h[a].type = "Choice"
       /\ Range(h[a].members) \cap E # {}

\* least set of nodes closed under MatchesEmptyGiven
RECURSIVE MatchesEmptyFrom(_, _)
MatchesEmptyFrom(h, E) ==
    LET more == {a \in 1..Len(h) : MatchesEmptyGiven(h, a, E)}
    IN  IF more \subseteq E THEN E ELSE MatchesEmptyFrom(h, E \cup more)

MatchesEmpty == MatchesEmptyFrom(DeclaredHeap, {})

\* C14: after buildGrammar returns, for every reachable node n, n.optional
\* is true if and only if n can match the empty string.
C14_OptionalIffMatchesEmpty ==
    phase = "built" =>
        \A a \in RootNodes : heap[a].optional <=> a \in MatchesEmpty

\* the work left to the elimination loop: unresolved nodes and their
\* unresolved dependencies
RECURSIVE PendingWork(_)
PendingWork(entries) ==
    IF entries = <<>> THEN 0
    ELSE 1 + Len(Head(entries).dependencies) + PendingWork(Tail(entries))

\* detectAndAnnotateOptionalNodes has returned
AnalysisDone ==
    \/ phase \in {"leftRecursion", "built", "parsing", "done"}
    \/ phase = "failed" /\ visitedNodes # {}

\* every node reachable from the root has a boolean verdict, written on it
VerdictsGiven ==
    /\ unresolvedNodes = <<>>
    /\ \A a \in RootNodes :
          /\ a \in DOMAIN resolvedNodes
          /\ resolvedNodes[a] \in BOOLEAN
          /\ heap[a].optional = resolvedNodes[a]

\* C15: the optionality analysis terminates on every prepared graph, cyclic
\* or not (an iteration of the elimination loop that is followed by another
\* one has strictly reduced the pending work), and when it ends every node
\* reachable from the root has a boolean verdict.
C15_AnalysisEndsWithVerdicts ==
    [][/\ (phase = "eliminate" /\ phase' = "eliminate")
              => PendingWork(unresolvedNodes') < PendingWork(unresolvedNodes)
       /\ AnalysisDone' => VerdictsGiven']_vars

\* the analysis has ended on a graph whose cycles needed a second iteration
\* of the elimination loop and the residual rule
C15_Witness ==
    /\ phase = "leftRecursion"
    /\ source.name = "Cyclic"
    /\ VerdictsGiven
    /\ \E a \in RootNodes : a \in Descendants(heap, Range(heap[a].members), Range(heap[a].members))

----------------------------------------------------------------------------
(* Returned trees                                                           *)

\* node N and the nodes below it: N.sourceText is the input between N's
\* offsets, every child lies inside N's span, and the children are in
\* non-decreasing offset order
RECURSIVE WellFormedTree(_)
WellFormedTree(N) ==
    /\ 0 <= N.startOffset /\ N.startOffset <= N.endOffset /\ N.endOffset <= Len(inputString)
    /\ N.sourceText = SubSeq(inputString, N.startOffset + 1, N.endOffset)
    /\ \A i \in 1..Len(N.children) :
          /\ N.startOffset <= N.children[i].startOffset
          /\ N.children[i].startOffset <= N.children[i].endOffset
          /\ N.children[i].endOffset <= N.endOffset
          /\ i > 1 => N.children[i - 1].startOffset <= N.children[i].startOffset
          /\ WellFormedTree(N.children[i])

----------------------------------------------------------------------------
(* Terminal matches of a derivation                                         *)

\* the spans, in order, tile [from, to): each starts where the one before
\* ended, the first at from, the last ends at to
Tiles(spans, from, to) ==
    IF spans = <<>> THEN from = to
    ELSE /\ spans[1][1] = from
         /\ spans[Len(spans)][2] = to
         /\ \A i \in 1..Len(spans) : spans[i][1] <= spans[i][2]
         /\ \A i \in 1..(Len(spans) - 1) : spans[i + 1][1] = spans[i][2]

\* C17: for every successful parse, the spans consumed by the terminal
\* matches of the accepted derivation, in order, tile [0, inputLength):
\* no gap, no overlap, the first starts at 0 and the last ends at the input
\* length.
C17_TerminalsTileInput ==
    (Finished /\ LastOutcome.returned) => Tiles(ret.value.consumed, 0, inputLength)

\* a successful parse whose derivation has several terminal matches, made
\* after an optional member was skipped or a choice branch discarded
C17_Witness ==
    /\ Finished
    /\ LastOutcome.returned
    /\ Len(ret.value.consumed) >= 3
    /\ bestFailedMatchesOffset >= 0

----------------------------------------------------------------------------
(* Errors                                                                   *)

\* the errors the reporter of parse can end the call with, given the
\* best-failed record and the result of the top-level call
ParseFailures ==
    {parseError(heap, r, bestFailedMatches, bestFailedMatchesOffset) :
        r \in {NullResult} \cup (IF ret.pending THEN {ret.value} ELSE {})}

\* C18: configuration errors are raised no later than buildGrammar: a
\* grammar whose pattern mixes named and unnamed capture groups never
\* yields a Grammar, and the only errors parse raises on a returned Grammar
\* are the two parse-failure messages of the error reporter.
C18_ConfigurationErrorsAtBuild ==
    /\ phase \in {"built", "parsing", "done"} =>
           \A a \in RootNodes :
               heap[a].type = "PatternTerminal" => ~mixesGroups(heap[a].pattern)
    /\ (Finished /\ ~LastOutcome.returned) => LastOutcome.error \in ParseFailures

----------------------------------------------------------------------------
(* Frame of parse                                                           *)

\* the Grammar and every field of every node of its graph
GrammarGraph == <<heap, grammar, lookup, startNonterminal, uniqueIdCounter>>

\* C19: parse modifies no field of any grammar node, and its cache and
\* best-failed record are created at call entry and not shared between
\* calls: over a sequence of parse calls on one Grammar the graph stays as
\* it was, each call starts from an empty cache and an empty best-failed
\* record at offset -1, and a later call on the same input ends as the
\* earlier one did.
C19_ParseLeavesGrammarAlone ==
    [][/\ phase \in {"built", "parsing"} => GrammarGraph' = GrammarGraph
       /\ (phase = "built" /\ phase' = "parsing") =>
              /\ cachedParseResults' = <<>>
              /\ bestFailedMatches' = <<>>
              /\ bestFailedMatchesOffset' = -1
       /\ (phase' = "done" /\ source.cached = {}) => outcomes'[2] = outcomes'[1]]_vars

\* two calls have ended, the second after a first that left a best-failed
\* record, and the second has filled its own cache
C19_Witness ==
    /\ phase = "done"
    /\ Len(outcomes) = 2
    /\ bestFailedMatchesOffset >= 0
    /\ cachedParseResults # <<>>

----------------------------------------------------------------------------
(* The best-failed record                                                   *)

\* the step interprets a terminal, which fails at the offset it is tried at
TerminalFailure ==
    /\ Parsing /\ Top.pc = "run"
    /\ TopNode.type \in {"StringTerminal", "PatternTerminal"}
    /\ TerminalFailsAt(TopNode, Top.startOffset)

\* the record after `terminal` failed at startOffset
BestFailedAfter(terminal, startOffset) ==
    IF startOffset > bestFailedMatchesOffset
    THEN bestFailedMatches' = <<terminal>> /\ bestFailedMatchesOffset' = startOffset
    ELSE IF startOffset = bestFailedMatchesOffset
    THEN /\ bestFailedMatches' = Append(bestFailedMatches, terminal)
         /\ bestFailedMatchesOffset' = bestFailedMatchesOffset
    ELSE UNCHANGED <<bestFailedMatches, bestFailedMatchesOffset>>

\* C20: throughout a parse the best-failed record changes only when a
\* StringTerminal or PatternTerminal is interpreted and fails: a failure
\* beyond the recorded offset replaces the offset and resets the list to
\* that terminal, a failure at the recorded offset appends the terminal, a
\* failure before it changes nothing.  The recorded offset never decreases,
\* the list is non-empty exactly when the offset is >= 0, and every listed
\* terminal failed at the recorded offset.
C20_BestFailedRecord ==
    [][/\ phase = "parsing" =>
              /\ IF TerminalFailure THEN BestFailedAfter(Top.node, Top.startOffset)
                 ELSE UNCHANGED <<bestFailedMatches, bestFailedMatchesOffset>>
              /\ bestFailedMatchesOffset' >= bestFailedMatchesOffset
       /\ (bestFailedMatches' # <<>>) <=> (bestFailedMatchesOffset' >= 0)
       /\ \A i \in 1..Len(bestFailedMatches') :
              /\ heap[bestFailedMatches'[i]].type \in {"StringTerminal", "PatternTerminal"}
              /\ TerminalFailsAt(heap[bestFailedMatches'[i]], bestFailedMatchesOffset')]_vars

\* a record that was reset by a failure further on and then grew by a
\* failure at the same offset, after a failure before it was ignored
C20_Witness ==
    /\ phase = "parsing"
    /\ Len(bestFailedMatches) >= 2
    /\ bestFailedMatchesOffset > 0
    /\ \E i \in 1..Len(FailedTerminalCalls) :
          /\ FailedTerminalCalls[i].startOffset < bestFailedMatchesOffset
          /\ \E j \in 1..(i - 1) : FailedTerminalCalls[j].startOffset > FailedTerminalCalls[i].startOffset

----------------------------------------------------------------------------
(* The verdicts of the optionality analysis                                 *)

\* the flag of node a agrees with the rule of its variant
FlagFollowsRule(declared, a) ==
    IF declared[a].optional THEN heap[a].optional
    ELSE IF heap[a].type \in {"StringTerminal", "PatternTerminal"}
    THEN heap[a].optional = declared[a].optional
    ELSE heap[a].optional <=> \A m \in Range(heap[a].members) : heap[m].optional

\* C21: after the optionality analysis the flags of all reachable nodes
\* satisfy the per-variant rules together, also on cyclic graphs: a node
\* declared optional is optional; otherwise a Nonterminal or Repetition is
\* optional iff its content is, a Sequence or Choice iff every member is,
\* and a terminal keeps the flag it had.
C21_FlagsFollowRules ==
    phase = "leftRecursion" =>
        \E declared \in {DeclaredHeap} : \A a \in RootNodes : FlagFollowsRule(declared, a)

\* the analysis has ended on a cyclic graph with an undeclared Sequence it
\* found optional and an undeclared Sequence it found not optional
C21_Witness ==
    /\ phase = "leftRecursion"
    /\ \E a \in RootNodes : a \in Descendants(heap, Range(heap[a].members), Range(heap[a].members))
    /\ \E declared \in {DeclaredHeap} : \E a, b \in RootNodes :
          /\ heap[a].type = "Sequence" /\ heap[b].type = "Sequence"
          /\ ~declared[a].optional /\ ~declared[b].optional
          /\ heap[a].optional /\ ~heap[b].optional

\* the nodes waiting in unresolvedNodes
UnresolvedSet == {unresolvedNodes[i].node : i \in 1..Len(unresolvedNodes)}

\* C22: the optionality analysis is monotone: a verdict recorded for a node
\* (by the depth-first pass, an elimination round or the residual rule) is
\* never changed by a later step, a node is never both resolved and
\* unresolved (nor listed twice as unresolved), and the optional flag
\* finally written on a node equals its verdict.
C22_VerdictsNeverChange ==
    [][/\ \A a \in DOMAIN resolvedNodes :
              a \in DOMAIN resolvedNodes' /\ resolvedNodes'[a] = resolvedNodes[a]
       /\ UnresolvedSet' \cap DOMAIN resolvedNodes' = {}
       /\ Cardinality(UnresolvedSet') = Len(unresolvedNodes')
       /\ phase' = "leftRecursion" =>
              \A a \in DOMAIN resolvedNodes' : heap'[a].optional = resolvedNodes'[a]]_vars

\* the elimination loop is under way: nodes wait unresolved beside nodes
\* that hold either verdict
C22_Witness ==
    /\ phase = "eliminate"
    /\ Len(unresolvedNodes) > 1
    /\ \E a, b \in DOMAIN resolvedNodes : resolvedNodes[a] /\ ~resolvedNodes[b]

----------------------------------------------------------------------------
(* What an evaluation yields, stated by structural recursion.  Interpret    *)
(* gives the result of evaluating a node at an offset as the descriptions   *)
(* of the element types state it, without stack, cache or best-failed       *)
(* record; Diverges stands for an evaluation that yields nothing (it does   *)
(* not end, or it throws).                                                  *)

Diverges == [ok |-> FALSE, endOffset |-> -2, hasNodes |-> FALSE, nodes |-> <<>>]

NoMatch == [ok |-> FALSE, endOffset |-> -1, hasNodes |-> FALSE, nodes |-> <<>>]

Match(endOffset, nodes) ==
    [ok |-> TRUE, endOffset |-> endOffset, hasNodes |-> nodes # <<>>, nodes |-> nodes]

\* the result without the record of its terminal matches
Plain(result) ==
    [ok |-> result.ok, endOffset |-> result.endOffset,
     hasNodes |-> result.hasNodes, nodes |-> result.nodes]

InterpretDepth == MaxDepth + 2

RECURSIVE Interpret(_, _, _)
RECURSIVE SequenceAfter(_, _, _, _)
RECURSIVE RepetitionFrom(_, _, _, _)
RECURSIVE ChoiceFrom(_, _, _, _, _)

\* the cursor and the nodes after members 1..i of Sequence a, begun at o
SequenceAfter(a, i, o, fuel) ==
    IF i = 0 THEN [diverges |-> FALSE, failed |-> FALSE, cursor |-> o, nodes |-> <<>>]
    ELSE LET before == SequenceAfter(a, i - 1, o, fuel) IN
         IF before.diverges \/ before.failed THEN before
         ELSE LET r == Interpret(ParsedGrammar[a].members[i], before.cursor, fuel - 1) IN
              IF r = Diverges THEN [before EXCEPT !.diverges = TRUE]
              ELSE IF r.ok
              THEN [before EXCEPT !.cursor = r.endOffset, !.nodes = @ \o r.nodes]
              ELSE IF ParsedGrammar[ParsedGrammar[a].members[i]].optional
              THEN before
              ELSE [before EXCEPT !.failed = TRUE]

\* the greedy loop of Repetition a with the cursor at `cursor`
RepetitionFrom(a, cursor, nodes, fuel) ==
    LET r == Interpret(ParsedGrammar[a].members[1], cursor, fuel - 1) IN
        IF r = Diverges THEN [diverges |-> TRUE, cursor |-> cursor, nodes |-> nodes]
        ELSE IF ~r.ok THEN [diverges |-> FALSE, cursor |-> cursor, nodes |-> nodes]
        ELSE IF r.endOffset <= cursor
        THEN [diverges |-> TRUE, cursor |-> cursor, nodes |-> nodes]
        ELSE RepetitionFrom(a, r.endOffset, nodes \o r.nodes, fuel)

\* members i.. of Choice a at o, `best` being the best result so far
ChoiceFrom(a, i, o, best, fuel) ==
    IF i > Len(ParsedGrammar[a].members) THEN best
    ELSE LET r == Interpret(ParsedGrammar[a].members[i], o, fuel - 1) IN
         IF r = Diverges THEN Diverges
         ELSE IF r.ok /\ (~best.ok \/ r.endOffset > best.endOffset)
         THEN IF ParsedGrammar[a].exhaustive THEN ChoiceFrom(a, i + 1, o, r, fuel)
              ELSE r
         ELSE ChoiceFrom(a, i + 1, o, best, fuel)

Interpret(a, o, fuel) ==
    IF fuel = 0 THEN Diverges
    ELSE CASE ParsedGrammar[a].type = "StringTerminal" ->
                  Plain(stringTerminalResult(ParsedGrammar[a], o))
           [] ParsedGrammar[a].type = "PatternTerminal" ->
                  IF patternThrows(ParsedGrammar[a], o) THEN Diverges
                  ELSE Plain(patternTerminalResult(ParsedGrammar[a], o))
           [] ParsedGrammar[a].type = "Nonterminal" ->
                  LET r == Interpret(ParsedGrammar[a].members[1], o, fuel - 1) IN
                      IF r = Diverges THEN Diverges
                      ELSE IF ~r.ok THEN NoMatch
                      ELSE Match(r.endOffset,
                                 <<ParseTreeNode(ParsedGrammar[a].name, o, r.endOffset,
                                                 r.hasNodes, r.nodes)>>)
           [] ParsedGrammar[a].type = "Sequence" ->
                  LET after == SequenceAfter(a, Len(ParsedGrammar[a].members), o, fuel) IN
                      IF after.diverges THEN Diverges
                      ELSE IF after.failed THEN NoMatch
                      ELSE Match(after.cursor, after.nodes)
           [] ParsedGrammar[a].type = "Repetition" ->
                  LET loop == RepetitionFrom(a, o, <<>>, fuel) IN
                      IF loop.diverges THEN Diverges
                      ELSE IF loop.cursor > o THEN Match(loop.cursor, loop.nodes)
                      ELSE NoMatch
           [] ParsedGrammar[a].type = "Choice" -> ChoiceFrom(a, 1, o, NoMatch, fuel)

\* the step ends the evaluation of the node on top of the stack
Delivers == Parsing /\ stack' = Below /\ ret'.pending

\* the step ends an evaluation, with the result Interpret gives
DeliversInterpreted ==
    LET r == Interpret(Top.node, Top.startOffset, InterpretDepth)
    IN  r # Diverges /\ Plain(ret'.value) = r

\* C23: a Sequence evaluated at offset o evaluates its members left to
\* right, each at the cursor left by the previous successful member; a
\* failed optional member is skipped with the cursor unchanged; at the
\* first failed member that is not optional the sequence returns null and
\* no later member is evaluated; otherwise it succeeds with endOffset equal
\* to the final cursor and the concatenation of its members' nodes (none
\* when that is empty).
C23_SequenceLeftToRight ==
    [][(Parsing /\ TopNode.type = "Sequence") =>
          /\ (Len(stack') > Len(stack)) =>
                 LET before == SequenceAfter(Top.node, Top.index - 1, Top.startOffset,
                                             InterpretDepth)
                 IN  /\ ~before.diverges /\ ~before.failed
                     /\ stack'[Len(stack')].node = TopNode.members[Top.index]
                     /\ stack'[Len(stack')].startOffset = before.cursor
          /\ Delivers => DeliversInterpreted]_vars

\* a sequence has ended after it skipped a failed optional member and a
\* later member matched and brought nodes
C23_Witness ==
    /\ phase = "parsing" /\ ret.pending /\ ret.value.ok /\ ret.value.hasNodes
    /\ Len(evalLog) > 0
    /\ \E i \in 1..Len(evalLog) :
          /\ heap[evalLog[i].node].type = "Sequence"
          /\ evalLog[i].depth = Len(stack) + 1
          /\ \A j \in (i + 1)..Len(evalLog) : evalLog[j].depth > evalLog[i].depth
          /\ \E j, k \in (i + 1)..Len(evalLog) :
                /\ j < k
                /\ evalLog[j].depth = evalLog[i].depth + 1
                /\ evalLog[k].depth = evalLog[i].depth + 1
                /\ heap[evalLog[j].node].optional
                /\ evalLog[k].startOffset = evalLog[j].startOffset
                /\ ret.value.endOffset > evalLog[k].startOffset

\* the evaluation that has just ended: the last call logged at the depth
\* above the stack, everything logged after it lying deeper
JustEnded(i) ==
    /\ i \in 1..Len(evalLog)
    /\ evalLog[i].depth = Len(stack) + 1
    /\ \A j \in (i + 1)..Len(evalLog) : evalLog[j].depth > evalLog[i].depth

\* C24: a Repetition evaluated at offset o is greedy: it re-evaluates its
\* content at the moving cursor until the content fails, then returns null
\* if the cursor never advanced past o, otherwise the cursor after the last
\* successful iteration with the concatenation of all iterations' nodes;
\* zeroOrMore and oneOrMore differ in the repetition's optional flag only.
C24_RepetitionGreedy ==
    [][(Parsing /\ TopNode.type = "Repetition") =>
          /\ (Len(stack') > Len(stack)) =>
                 /\ stack'[Len(stack')].node = TopNode.members[1]
                 /\ stack'[Len(stack')].startOffset >= Top.startOffset
                 /\ stack'[Len(stack')].startOffset = Top.readOffset
                 /\ (Top.readOffset > Top.startOffset) =>
                        Interpret(TopNode.members[1], Top.startOffset, InterpretDepth).ok
          /\ Delivers => DeliversInterpreted]_vars

\* a repetition has ended after several iterations that brought nodes
C24_Witness ==
    /\ phase = "parsing" /\ ret.pending /\ ret.value.ok
    /\ Len(ret.value.nodes) >= 2
    /\ \E i \in 1..Len(evalLog) :
          /\ JustEnded(i)
          /\ heap[evalLog[i].node].type = "Repetition"
          /\ ~evalLog[i].hit
          /\ ret.value.endOffset >= evalLog[i].startOffset + 2

----------------------------------------------------------------------------
(* Pattern terminals                                                        *)

\* the step ends the interpretation of a pattern terminal with a match
PatternMatched ==
    /\ Parsing /\ Top.pc = "run" /\ TopNode.type = "PatternTerminal"
    /\ Delivers /\ ret'.value.ok

\* the capture groups of p that took part in a match of length k, in order
RECURSIVE MatchedGroups(_, _, _)
MatchedGroups(p, i, k) ==
    IF i > Len(p.groups) THEN <<>>
    ELSE (IF p.groups[i].optional /\ k = 0 THEN <<>> ELSE <<i>>)
         \o MatchedGroups(p, i + 1, k)

\* the match brought one node, named after the terminal, spanning the
\* match, with one child per matched group: named by the group's name when
\* the groups are named, else by its 1-based index
BringsGroupNode ==
    LET p == TopNode.pattern
        k == ret'.value.endOffset - Top.startOffset
        groups == MatchedGroups(p, 1, k)
    IN  /\ ret'.value.hasNodes
        /\ Len(ret'.value.nodes) = 1
        /\ ret'.value.nodes[1].name = TopNode.name
        /\ ret'.value.nodes[1].startOffset = Top.startOffset
        /\ ret'.value.nodes[1].endOffset = ret'.value.endOffset
        /\ Len(ret'.value.nodes[1].children) = Len(groups)
        /\ \A j \in 1..Len(groups) :
               ret'.value.nodes[1].children[j].name =
                   IF p.groups[groups[j]].name # "" THEN p.groups[groups[j]].name
                   ELSE ToString(groups[j])

\* C25 as stated: a successful PatternTerminal match contributes a node if
\* and only if its pattern has at least one capture group (then with one
\* child per matched group); for a pattern without capture groups the
\* result has no nodes.
C25_NodeIffCaptureGroups ==
    [][PatternMatched =>
          IF Len(TopNode.pattern.groups) > 0 THEN BringsGroupNode
          ELSE ~ret'.value.hasNodes /\ ret'.value.nodes = <<>>]_vars

\* C25, corrected: every successful PatternTerminal match contributes one
\* node, with one child per matched capture group; for a pattern without
\* capture groups the node has an empty list of children.
C25_NodeForEveryMatch ==
    [][PatternMatched => BringsGroupNode]_vars

\* a pattern without capture groups has matched and brought a node with no
\* children
C25_Witness ==
    /\ phase = "parsing" /\ ret.pending /\ ret.value.ok
    /\ \E i \in 1..Len(evalLog) :
          /\ JustEnded(i)
          /\ heap[evalLog[i].node].type = "PatternTerminal"
          /\ heap[evalLog[i].node].pattern.groups = <<>>
    /\ ret.value.hasNodes
    /\ ret.value.nodes[1].children = <<>>

\* the anchored regular expression of p matches the suffix input[o..]: it
\* matches the empty string, or the suffix begins with one of its characters
RegExpMatchesSuffix(p, o) ==
    \/ p.nullable
    \/ o < inputLength /\ inputString[o + 1] \in p.chars

\* C26: a PatternTerminal evaluated at an offset o, 0 <= o <= inputLength,
\* succeeds exactly when its anchored regular expression matches the suffix
\* input[o..], the match starting at o, and fails, updating the best-failed
\* record, exactly when it does not; o = inputLength, where the suffix is
\* empty, included.
C26_PatternMatchesSuffix ==
    [][(/\ Parsing /\ Top.pc = "run" /\ TopNode.type = "PatternTerminal"
        /\ ~mixesGroups(TopNode.pattern)) =>
          /\ Top.startOffset <= inputLength
          /\ ret'.pending
          /\ ret'.value.ok <=> RegExpMatchesSuffix(TopNode.pattern, Top.startOffset)
          /\ ret'.value.ok => ret'.value.endOffset >= Top.startOffset
          /\ ~ret'.value.ok => BestFailedAfter(Top.node, Top.startOffset)]_vars

\* the names of the callable productions of the grammar object
ProductionNames == {Src.obj[i].key : i \in Range(CallableKeys(Src.obj))}

RequiredTwin(name) == grammar.productions[name]

\* the Nonterminal nodes of that name other than the required twin
OtherTwins(name) ==
    {b \in DOMAIN heap : /\ b # RequiredTwin(name)
                         /\ heap[b].type = "Nonterminal"
                         /\ heap[b].name = name}

\* the prepared node at address a is what the declared element e became: a
\* reference became the twin it asks for, any other element kept its type
\* and its members, each prepared likewise
RECURSIVE PreparedFrom(_, _)
PreparedFrom(e, a) ==
    IF e.type = "NonterminalReference"
    THEN IF e.optional THEN a \in OtherTwins(e.reference)
                       ELSE a = RequiredTwin(e.reference)
    ELSE /\ heap[a].type = e.type
         /\ IF e.type \in {"Sequence", "Choice", "Repetition"}
            THEN /\ Len(heap[a].members) = Len(e.members)
                 /\ \A i \in 1..Len(e.members) :
                        PreparedFrom(e.members[i], heap[a].members[i])
            ELSE TRUE

\* the production bodies as declared, by callable in key order
DeclaredBodies == Inventory(Src.obj).nonterminals

\* C27: after buildGrammar every callable production has a required and an
\* optional Nonterminal twin of the same name sharing one prepared content
\* object, the optional twin with optional = true; a reference wrapped in
\* possibly(...) has been replaced by the optional twin, a plain reference
\* by the required twin, and Grammar.productions maps each production name
\* to the required twin.
C27_TwinsAndReferences ==
    phase = "built" =>
        /\ DOMAIN grammar.productions = ProductionNames
        /\ \A name \in ProductionNames :
               /\ heap[RequiredTwin(name)].type = "Nonterminal"
               /\ heap[RequiredTwin(name)].name = name
               /\ Cardinality(OtherTwins(name)) = 1
               /\ \A b \in OtherTwins(name) :
                      /\ heap[b].optional
                      /\ heap[b].members = heap[RequiredTwin(name)].members
        /\ \E declared \in {DeclaredBodies} :
               \A j \in 1..Len(declared) :
                   PreparedFrom(declared[j].members[1],
                                heap[RequiredTwin(declared[j].name)].members[1])

\* a built grammar in which one sequence refers to the optional twin of a
\* production and to a required twin
C27_Witness ==
    /\ phase = "built"
    /\ \E a \in DOMAIN heap :
           /\ heap[a].type = "Sequence"
           /\ \E i \in 1..Len(heap[a].members), name \in ProductionNames :
                  heap[a].members[i] \in OtherTwins(name)
    /\ \E a \in DOMAIN heap :
           /\ heap[a].type = "Sequence"
           /\ \E i \in 1..Len(heap[a].members), name \in ProductionNames :
                  heap[a].members[i] = RequiredTwin(name)

\* C28: on a Grammar that buildGrammar returned, parse never begins
\* evaluating a node at an offset while an evaluation of the same node at
\* the same offset is still in progress (so that it terminates on every
\* finite input).
C28_NoReentry ==
    Parsing =>
        \A i, j \in 1..Len(stack) :
            (i < j /\ stack[i].node = stack[j].node) =>
                stack[i].startOffset # stack[j].startOffset

\* C29: memoization does not change the failure diagnostic: when parse
\* fails, the error (reported position and deduplicated list of expected
\* terminals, or the parsed-length message) is the one the same grammar
\* gives with caching off everywhere, although an evaluation answered from
\* the cache does not update the best-failed record again.
C29_CacheKeepsDiagnostic ==
    (phase = "done" /\ (~outcomes[1].returned \/ ~outcomes[2].returned)) =>
        /\ ~outcomes[1].returned /\ ~outcomes[2].returned
        /\ outcomes[2].error.message = outcomes[1].error.message

\* a failed parse in which the cache answered for a terminal that had failed
\* at the reported position
C29_Witness ==
    /\ phase = "done" /\ ~LastOutcome.returned
    /\ \E i \in 1..Len(evalLog), k \in 1..Len(bestFailedMatches) :
           /\ evalLog[i].hit
           /\ evalLog[i].startOffset = bestFailedMatchesOffset
           /\ bestFailedMatches[k] \in
                  Descendants(heap, {evalLog[i].node}, {evalLog[i].node})

\* the node N and every node below it span offsets of the input, in order
RECURSIVE SpansInput(_)
SpansInput(N) ==
    /\ 0 <= N.startOffset /\ N.startOffset <= N.endOffset
    /\ N.endOffset <= inputLength
    /\ \A i \in 1..Len(N.children) : SpansInput(N.children[i])

\* C30: every non-null result of evaluating a node at offset o has
\* o <= endOffset <= inputLength, every parse-tree node it carries has
\* 0 <= startOffset <= endOffset <= inputLength, and no node is evaluated
\* at an offset greater than inputLength.
C30_OffsetsWithinInput ==
    [][Parsing =>
          /\ \A i \in 1..Len(stack) :
                 0 <= stack[i].startOffset /\ stack[i].startOffset <= inputLength
          /\ (Delivers /\ ret'.value.ok) =>
                 /\ Top.startOffset <= ret'.value.endOffset
                 /\ ret'.value.endOffset <= inputLength
                 /\ \A k \in 1..Len(ret'.value.nodes) :
                        SpansInput(ret'.value.nodes[k])]_vars

\* a terminal is evaluated at the very end of a non-empty input, after a
\* result that carried a parse-tree node ending there was delivered
C30_Witness ==
    /\ Parsing /\ inputLength > 0
    /\ Top.startOffset = inputLength
    /\ TopNode.type \in {"StringTerminal", "PatternTerminal"}
    /\ \E i \in 1..Len(stack) :
           /\ stack[i].nodes # <<>>
           /\ stack[i].nodes[Len(stack[i].nodes)].endOffset = inputLength

====
